---- MODULE Spec2Model ----
(***************************************************************************)
(* Outbound delivery engine of the SMTP server: DeliveryAttempt::try_deliver *)
(* (src/src/queue/delivery.rs) together with the queue manager, the        *)
(* limiters and the message helpers it calls.  One message record is moved  *)
(* between the main schedule, the on_hold set, a delivery attempt and the   *)
(* event channel, exactly as the Box<Message> is moved in the code.         *)
(***************************************************************************)
EXTENDS Integers, Sequences, FiniteSets, TLC

VARIABLES
    now,          \* Instant::now(), a discrete clock
    main,         \* Queue::main, the schedule of due messages
    on_hold,      \* Queue::on_hold
    chan,         \* the event channel core.queue.tx -> queue manager
    attempt,      \* one DeliveryAttempt (and its spawned task) per slot
    concurrent,   \* per limiter key: concurrency tokens in use
    destroyed,    \* history: the messages that were dropped, as they were then
    stopped,      \* the queue manager has ended: the receiver of the channel is gone
    released,     \* limiter keys whose release the queue manager has yet to handle
    whole_capture,   \* build: the spawned block owns all of `self` (else only the fields it names)
    overflow_checks, \* build: integer overflow panics (else it wraps)
    pure          \* input and result of a helper applied on its own

vars == <<now, main, on_hold, chan, attempt, concurrent, destroyed, stopped, released,
          whole_capture, overflow_checks, pure>>

(***************************************************************************)
(* Bounds of the model.                                                     *)
(***************************************************************************)
NumMsgs == 2
NumDomains == 2
MaxTime == 1
MaxRateWait == 1

Msgs == 1..NumMsgs
Slots == 1..NumMsgs

(***************************************************************************)
(* Status values.  `s` is the variant, `e` the Error carried by a failure.  *)
(***************************************************************************)
Scheduled == [s |-> "Scheduled", e |-> "none"]
Completed == [s |-> "Completed", e |-> "none"]
PermanentFailure(err) == [s |-> "PermanentFailure", e |-> err]
TemporaryFailure(err) == [s |-> "TemporaryFailure", e |-> err]

IsTerminal(status) == status.s \in {"Completed", "PermanentFailure"}

\* Option<Instant>: <<>> is None, <<t>> is Some(t).
None == <<>>
Some(t) == <<t>>

Min(S) == CHOOSE x \in S : \A y \in S : x <= y

(***************************************************************************)
(* Messages.                                                                *)
(***************************************************************************)
NoMessage == [id |-> 0, flags |-> FALSE, domains |-> <<>>, recipients |-> <<>>]

NewDomain == [status |-> Scheduled, retry |-> [inner |-> 0, due |-> 0]]

\* A message with nd domains; `extra` adds a second recipient to domain 1.
NewMessage(m, nd, requiretls, extra) ==
    [id |-> m,
     flags |-> requiretls,
     domains |-> [i \in 1..nd |-> NewDomain],
     recipients |-> [i \in 1..nd |-> [domain_idx |-> i, status |-> Scheduled]]
                    \o (IF extra THEN <<[domain_idx |-> 1, status |-> Scheduled]>>
                        ELSE <<>>)]

\* The queues the model starts from: one message to NumDomains domains, or
\* NumMsgs messages to one domain each (the last one with MAIL_REQUIRETLS).
InitialQueues ==
    {{NewMessage(1, 1, FALSE, TRUE)},
     {NewMessage(1, NumDomains, FALSE, FALSE)},
     {NewMessage(m, 1, m = NumMsgs, FALSE) : m \in Msgs}}

(***************************************************************************)
(* Message::next_event and Message::next_event_after.                       *)
(***************************************************************************)
PendingDues(message) ==
    {message.domains[i].retry.due : i \in
        {j \in DOMAIN message.domains : ~IsTerminal(message.domains[j].status)}}

next_event(message) ==
    IF PendingDues(message) = {} THEN None ELSE Some(Min(PendingDues(message)))

next_event_after(message, instant) ==
    LET later == {t \in PendingDues(message) : t > instant}
    IN IF later = {} THEN None ELSE Some(Min(later))

(***************************************************************************)
(* Throttle rules and limiters.                                             *)
(***************************************************************************)
SenderRules == <<[key |-> "sender", concurrency |-> 1, rate |-> TRUE]>>
RcptRules == <<[key |-> "rcpt", concurrency |-> 2, rate |-> TRUE]>>
HostRules == <<[key |-> "host", concurrency |-> 1, rate |-> FALSE]>>
\* A second configuration of the remote host throttle, which lets two
\* connections be open at a time.
WideHostRules == <<[key |-> "host-wide", concurrency |-> 2, rate |-> FALSE]>>

AllRules == SenderRules \o RcptRules \o HostRules \o WideHostRules
Keys == {AllRules[i].key : i \in DOMAIN AllRules}
max_concurrent(key) ==
    LET i == CHOOSE j \in DOMAIN AllRules : AllRules[j].key = key
    IN AllRules[i].concurrency

\* Dropping a Vec<InFlight>: every token gives its slot back.
RECURSIVE Release(_, _)
Release(conc, tokens) ==
    IF tokens = <<>> THEN conc
    ELSE Release([conc EXCEPT ![Head(tokens)] = @ - 1], Tail(tokens))

\* QueueCore::is_allowed for one rule.  rate_ok: the rate limiter of the rule
\* has a token left.  On failure nothing is acquired.
is_allowed(rule, conc, in_flight, rate_ok) ==
    IF rule.rate /\ ~rate_ok
    THEN [err |-> "Rate", limiter |-> rule.key, concurrent |-> conc, in_flight |-> in_flight]
    ELSE IF rule.concurrency > 0 /\ conc[rule.key] >= rule.concurrency
    THEN [err |-> "Concurrency", limiter |-> rule.key, concurrent |-> conc,
          in_flight |-> in_flight]
    ELSE IF rule.concurrency > 0
    THEN [err |-> "none", limiter |-> rule.key,
          concurrent |-> [conc EXCEPT ![rule.key] = @ + 1],
          in_flight |-> Append(in_flight, rule.key)]
    ELSE [err |-> "none", limiter |-> rule.key, concurrent |-> conc, in_flight |-> in_flight]

\* `for throttle in rules { if let Err(err) = is_allowed(..) { .. } }`: the
\* first failing rule ends the loop.  rate_fail is the index of the rule whose
\* rate limiter is exhausted (0: none).
RECURSIVE ThrottleLoop(_, _, _, _, _)
ThrottleLoop(rules, i, conc, in_flight, rate_fail) ==
    IF i > Len(rules)
    THEN [err |-> "none", limiter |-> "none", concurrent |-> conc, in_flight |-> in_flight]
    ELSE LET r == is_allowed(rules[i], conc, in_flight, rate_fail # i)
         IN IF r.err # "none" THEN r
            ELSE ThrottleLoop(rules, i + 1, r.concurrent, r.in_flight, rate_fail)

(***************************************************************************)
(* Domain::set_status, Domain::retry and Domain::set_throttle_error.        *)
(***************************************************************************)
\* queue.retry: the schedule of waits, and the width of the u32 counter
\* scaled down to CounterBits bits.
RetrySchedule == <<2, 3>>
CounterBits == 3
CounterMod == 2 ^ CounterBits

\* Result of a call that may panic.
Ok(v) == [panic |-> FALSE, v |-> v]
Panicked(v) == [panic |-> TRUE, v |-> v]

\* Domain::retry.  checks: the build panics on integer overflow,
\* otherwise the arithmetic wraps.
retry(domain, schedule, t, checks) ==
    IF Len(schedule) = 0
    THEN Panicked(domain)     \* len() - 1 underflows: panic, or index out of bounds
    ELSE LET idx == IF domain.retry.inner < Len(schedule) - 1
                    THEN domain.retry.inner ELSE Len(schedule) - 1
             due == t + schedule[idx + 1]
         IN IF domain.retry.inner + 1 >= CounterMod
            THEN IF checks
                 THEN Panicked([domain EXCEPT !.retry.due = due])
                 ELSE Ok([domain EXCEPT !.retry.due = due, !.retry.inner = 0])
            ELSE Ok([domain EXCEPT !.retry.due = due, !.retry.inner = @ + 1])

set_status(domain, status, schedule, t, checks) ==
    LET d == [domain EXCEPT !.status = status]
    IN IF status.s = "TemporaryFailure"
       THEN retry(d, schedule, t, checks)
       ELSE Ok(d)

\* Domain::set_throttle_error: a rate failure moves the due time, a
\* concurrency failure records the limiter; the status and counter stay.
set_throttle_error(domain, on_hold_list, err, limiter, retry_at) ==
    IF err = "Concurrency"
    THEN [domain |-> domain, on_hold |-> Append(on_hold_list, limiter)]
    ELSE [domain |-> [domain EXCEPT !.retry.due = retry_at], on_hold |-> on_hold_list]

(***************************************************************************)
(* Error classification: From<mail_send::Error> and From<mail_auth::Error>. *)
(***************************************************************************)
PermanentNegativeCompletion == 5

SmtpErrorKinds ==
    {"Io", "Base64", "UnparseableReply", "AuthenticationFailed", "MissingCredentials",
     "MissingMailFrom", "MissingRcptTo", "Timeout", "UnexpectedReply", "Auth",
     "UnsupportedAuthMechanism", "InvalidTLSName", "MissingStartTls"}

\* The classification without the test of the severity.
StatusFromSmtpNoSeverity(err) ==
    IF err.kind = "UnexpectedReply"
    THEN TemporaryFailure("UnexpectedResponse")
    ELSE TemporaryFailure("ConnectionError")

\* err = [kind, severity]; severity is the first digit of the reply code.
StatusFromSmtp(err) ==
    IF err.kind \in {"Io", "Base64", "UnparseableReply", "AuthenticationFailed",
                     "MissingCredentials", "MissingMailFrom", "MissingRcptTo", "Timeout"}
    THEN TemporaryFailure("ConnectionError")
    ELSE IF err.kind = "UnexpectedReply"
    THEN IF err.severity = PermanentNegativeCompletion
         THEN PermanentFailure("UnexpectedResponse")
         ELSE TemporaryFailure("UnexpectedResponse")
    ELSE TemporaryFailure("ConnectionError")

DnsErrorKinds == {"DNSRecordNotFound", "DNSError"}

StatusFromDns(err) ==
    IF err = "DNSRecordNotFound"
    THEN PermanentFailure("DNSError")
    ELSE TemporaryFailure("DNSError")

(***************************************************************************)
(* RemoteHost and the list of hosts built from an MX lookup.                *)
(***************************************************************************)
MX(host) ==
    [kind |-> "MX", address |-> host, port |-> 0, tls_implicit |-> FALSE,
     tls_allow_invalid_certs |-> FALSE]
Relay(relay) ==
    [kind |-> "Relay", address |-> relay.address, port |-> relay.port,
     tls_implicit |-> relay.tls_implicit,
     tls_allow_invalid_certs |-> relay.tls_allow_invalid_certs]

hostname(h) == h.address
port(h) == IF h.kind = "MX" THEN 25 ELSE h.port
allow_invalid_certs(h) == IF h.kind = "MX" THEN FALSE ELSE h.tls_allow_invalid_certs
implicit_tls(h) == IF h.kind = "MX" THEN FALSE ELSE h.tls_implicit

\* The choice of lines 204-208 with its test inverted.
tls_connector_inverted(tls_strategy, remote_host) ==
    IF tls_strategy = "dane" THEN "todo"
    ELSE IF allow_invalid_certs(remote_host) THEN "pki_verify"
    ELSE "dummy_verify"

\* Lines 202-208: the TLS connector of a connection ("todo": the task panics
\* at todo!() before any connector is chosen).
tls_connector(tls_strategy, remote_host) ==
    IF tls_strategy = "dane" THEN "todo"
    ELSE IF ~allow_invalid_certs(remote_host) THEN "pki_verify"
    ELSE "dummy_verify"

\* The inner loop over the shuffled exchanges of one record: its break
\* leaves this loop only.
RECURSIVE PushExchanges(_, _, _, _)
PushExchanges(hosts, slice, j, max_mx) ==
    IF j > Len(slice) THEN hosts
    ELSE LET pushed == Append(hosts, MX(slice[j]))
         IN IF Len(pushed) = max_mx THEN pushed
            ELSE PushExchanges(pushed, slice, j + 1, max_mx)

\* The loop over mx_list.  shuffled[i] is the order slice.shuffle() gave the
\* exchanges of record i.
RECURSIVE PushRecords(_, _, _, _, _)
PushRecords(hosts, mx_list, i, max_mx, shuffled) ==
    IF i > Len(mx_list) THEN hosts
    ELSE IF Len(mx_list[i].exchanges) > 1
    THEN PushRecords(PushExchanges(hosts, shuffled[i], 1, max_mx),
                     mx_list, i + 1, max_mx, shuffled)
    ELSE IF Len(mx_list[i].exchanges) = 1
    THEN LET pushed == Append(hosts, MX(mx_list[i].exchanges[1]))
         IN IF Len(pushed) = max_mx THEN pushed
            ELSE PushRecords(pushed, mx_list, i + 1, max_mx, shuffled)
    ELSE PushRecords(hosts, mx_list, i + 1, max_mx, shuffled)

\* The list without the implicit MX of an empty lookup.
remote_hosts_no_implicit(domain_name, mx_list, max_mx, shuffled) ==
    PushRecords(<<>>, mx_list, 1, max_mx, shuffled)

\* Lines 113-140: the hosts of a successful MX lookup.
remote_hosts_of(domain_name, mx_list, max_mx, shuffled) ==
    IF mx_list # <<>>
    THEN PushRecords(<<>>, mx_list, 1, max_mx, shuffled)
    ELSE <<MX(domain_name)>>

\* All orders of a sequence.
Orders(seq) ==
    {[i \in DOMAIN seq |-> seq[p[i]]] : p \in Permutations(DOMAIN seq)}
Shuffles(mx_list) ==
    {f \in [DOMAIN mx_list -> UNION {Orders(mx_list[i].exchanges) : i \in DOMAIN mx_list}] :
        \A i \in DOMAIN mx_list : f[i] \in Orders(mx_list[i].exchanges)}

(***************************************************************************)
(* Core::resolve_host.                                                      *)
(***************************************************************************)
\* take() that stops one address late.
TakeOneMore(seq, n) == SubSeq(seq, 1, IF n + 1 < Len(seq) THEN n + 1 ELSE Len(seq))

\* .take(max_multihomed)
Take(seq, n) == SubSeq(seq, 1, IF n < Len(seq) THEN n ELSE Len(seq))

IsIpv4(ip) == ip.v = 4

\* source_ips.len().cmp(&1): one address is taken, several are drawn from
\* at random (rnd), none leaves source_ip unset.
PickSource(source_ips, rnd) ==
    IF Len(source_ips) = 1 THEN Some(source_ips[1])
    ELSE IF Len(source_ips) > 1 THEN Some(source_ips[((rnd - 1) % Len(source_ips)) + 1])
    ELSE None

\* lookup = [err, ips]: the result of resolver.ip_lookup.
resolve_host(lookup, max_multihomed, source_ipv4, source_ipv6, rnd) ==
    IF lookup.err # "none"
    THEN [ok |-> FALSE, status |-> StatusFromDns(lookup.err),
          source_ip |-> None, remote_ips |-> <<>>]
    ELSE LET remote_ips == Take(lookup.ips, max_multihomed)
             source_ip == IF remote_ips = <<>> THEN None
                          ELSE IF IsIpv4(remote_ips[1])
                          THEN PickSource(source_ipv4, rnd)
                          ELSE PickSource(source_ipv6, rnd)
         IN IF remote_ips # <<>>
            THEN [ok |-> TRUE, status |-> Scheduled,
                  source_ip |-> source_ip, remote_ips |-> remote_ips]
            ELSE [ok |-> FALSE, status |-> TemporaryFailure("DNSError"),
                  source_ip |-> None, remote_ips |-> <<>>]

(***************************************************************************)
(* Message::deliver: EHLO, MAIL FROM, one RCPT TO per recipient of the      *)
(* domain, DATA.  script.pre is the error of EHLO/MAIL FROM (kind "none":   *)
(* both accepted), script.rcpt the reply severities of the RCPT TO commands *)
(* in recipient order, script.data the severity of the final reply.         *)
(***************************************************************************)
PositiveCompletion == 2
TransientNegativeCompletion == 4

UnexpectedReply(severity) == [kind |-> "UnexpectedReply", severity |-> severity]
NoError == [kind |-> "none", severity |-> 0]

\* The iterator without its filter.
RcptOfDomainAll(recipients, domain_idx) == DOMAIN recipients

\* recipients.iter_mut().filter(|r| r.domain_idx == domain_idx)
RcptOfDomain(recipients, domain_idx) ==
    {i \in DOMAIN recipients : recipients[i].domain_idx = domain_idx}

\* Position of recipient i among the recipients of its domain.
RcptPos(recipients, i) ==
    Cardinality({j \in RcptOfDomain(recipients, recipients[i].domain_idx) : j <= i})

deliver(recipients, domain_idx, script) ==
    LET mine == RcptOfDomain(recipients, domain_idx)
        reply(i) == script.rcpt[RcptPos(recipients, i)]
        accepted == {i \in mine : reply(i) = PositiveCompletion}
        refused == mine \ accepted
        after_rcpt == [i \in DOMAIN recipients |->
                         IF i \in refused
                         THEN [recipients[i] EXCEPT
                                  !.status = StatusFromSmtp(UnexpectedReply(reply(i)))]
                         ELSE recipients[i]]
        data_status == IF script.data = PositiveCompletion THEN Completed
                       ELSE StatusFromSmtp(UnexpectedReply(script.data))
    IN IF script.pre.kind # "none"
       THEN [status |-> StatusFromSmtp(script.pre), recipients |-> recipients]
       ELSE IF accepted = {}
       THEN [status |-> after_rcpt[CHOOSE i \in mine : \A j \in mine : j <= i].status,
             recipients |-> after_rcpt]
       ELSE [status |-> data_status,
             recipients |-> [i \in DOMAIN recipients |->
                               IF i \in accepted
                               THEN [after_rcpt[i] EXCEPT !.status = data_status]
                               ELSE after_rcpt[i]]]

(***************************************************************************)
(* The result handed to the queue manager.                                  *)
(***************************************************************************)
\* The fold with Retry tested before OnHold.
WorkerResultRetryFirst(on_hold_list, message, t) ==
    IF next_event(message) # None
    THEN [kind |-> "Retry", due |-> next_event(message),
          limiters |-> <<>>, message |-> message]
    ELSE IF on_hold_list # <<>>
    THEN [kind |-> "OnHold", due |-> next_event_after(message, t),
          limiters |-> on_hold_list, message |-> message]
    ELSE [kind |-> "Done", due |-> None, limiters |-> <<>>, message |-> NoMessage]

\* Lines 312-325.
WorkerResult(on_hold_list, message, t) ==
    IF on_hold_list # <<>>
    THEN [kind |-> "OnHold", due |-> next_event_after(message, t),
          limiters |-> on_hold_list, message |-> message]
    ELSE IF next_event(message) # None
    THEN [kind |-> "Retry", due |-> next_event(message),
          limiters |-> <<>>, message |-> message]
    ELSE [kind |-> "Done", due |-> None, limiters |-> <<>>, message |-> NoMessage]

(***************************************************************************)
(* A delivery attempt: the DeliveryAttempt and the locals of its task.      *)
(***************************************************************************)
IdleAttempt ==
    [pc |-> "idle", message |-> NoMessage, in_flight |-> <<>>, on_hold |-> <<>>,
     domain_idx |-> 0, in_flight_rcpt |-> <<>>, remote_hosts |-> <<>>, host_idx |-> 0,
     source_ip |-> None, remote_ips |-> <<>>, ip_idx |-> 0, in_flight_host |-> <<>>,
     last_status |-> Scheduled, tls_strategy |-> "none", secure |-> FALSE]

\* DeliveryAttempt::from(message)
NewAttempt(message) == [IdleAttempt EXCEPT !.pc = "sender", !.message = message]

\* A step of the task: the attempt after it, the limiters after it, and
\* whether the task panicked.
Step(at, conc) == [at |-> at, conc |-> conc, panic |-> FALSE]
PanicStep(at, conc) == [at |-> at, conc |-> conc, panic |-> TRUE]

\* The test of line 63 without the status.
IsDueIgnoreStatus(domain, t) == domain.retry.due <= t

\* Only process domains due for delivery.
IsDue(domain, t) ==
    /\ domain.status.s \in {"Scheduled", "TemporaryFailure"}
    /\ domain.retry.due <= t

\* `continue 'next_domain`: in_flight and in_flight_host go out of scope.
ContinueNextDomain(at, conc) ==
    Step([at EXCEPT !.pc = "domain", !.domain_idx = @ + 1, !.in_flight_rcpt = <<>>,
                    !.remote_hosts = <<>>, !.host_idx = 0, !.source_ip = None,
                    !.remote_ips = <<>>, !.ip_idx = 0, !.in_flight_host = <<>>,
                    !.last_status = Scheduled, !.tls_strategy = "none", !.secure = FALSE],
         Release(Release(conc, at.in_flight_host), at.in_flight_rcpt))

\* Leaving a host with the failure written to the domain at once.
ContinueNextHostSetStatus(at, conc) ==
    Step([at EXCEPT !.pc = "host", !.host_idx = @ + 1, !.source_ip = None,
                    !.remote_ips = <<>>, !.ip_idx = 0, !.in_flight_host = <<>>,
                    !.message.domains[at.domain_idx] =
                        set_status(@, at.last_status, RetrySchedule, now, overflow_checks).v],
         Release(conc, at.in_flight_host))

\* `continue 'next_host`: in_flight_host goes out of scope.
ContinueNextHost(at, conc) ==
    Step([at EXCEPT !.pc = "host", !.host_idx = @ + 1, !.source_ip = None,
                    !.remote_ips = <<>>, !.ip_idx = 0, !.in_flight_host = <<>>],
         Release(conc, at.in_flight_host))

\* `continue 'next_ip`; after the last address the loop over hosts goes on.
ContinueNextIp(at, conc) ==
    IF at.ip_idx < Len(at.remote_ips)
    THEN Step([at EXCEPT !.pc = "ip", !.ip_idx = @ + 1, !.in_flight_host = <<>>],
              Release(conc, at.in_flight_host))
    ELSE ContinueNextHost(at, conc)

\* domain.set_status(status, retry schedule) followed by the next domain.
SetStatusStep(at, conc, status, t) ==
    LET r == set_status(at.message.domains[at.domain_idx], status, RetrySchedule, t,
                        overflow_checks)
        next == ContinueNextDomain([at EXCEPT !.message.domains[at.domain_idx] = r.v], conc)
    IN IF r.panic THEN PanicStep(next.at, next.conc) ELSE next

\* A throttle failure that leaves the loop over domains (`break` in place of
\* `continue 'next_domain`).
ThrottleErrorStepBreak(at, conc, r, retry_at) ==
    LET te == set_throttle_error(at.message.domains[at.domain_idx], at.on_hold,
                                 r.err, r.limiter, retry_at)
        next == ContinueNextDomain([at EXCEPT !.message.domains[at.domain_idx] = te.domain,
                                              !.on_hold = te.on_hold],
                                   Release(r.concurrent, r.in_flight))
    IN Step([next.at EXCEPT !.pc = "notify"], next.conc)

\* A throttle failure that also records the status of the hosts tried so far.
ThrottleErrorStepAsFailure(at, conc, r, retry_at) ==
    LET te == set_throttle_error(at.message.domains[at.domain_idx], at.on_hold,
                                 r.err, r.limiter, retry_at)
    IN SetStatusStep([at EXCEPT !.message.domains[at.domain_idx] = te.domain,
                                !.on_hold = te.on_hold],
                     Release(r.concurrent, r.in_flight), at.last_status, now)

\* domain.set_throttle_error(err, &mut on_hold); continue 'next_domain
ThrottleErrorStep(at, conc, r, retry_at) ==
    LET te == set_throttle_error(at.message.domains[at.domain_idx], at.on_hold,
                                 r.err, r.limiter, retry_at)
    IN ContinueNextDomain([at EXCEPT !.message.domains[at.domain_idx] = te.domain,
                                     !.on_hold = te.on_hold],
                          Release(r.concurrent, r.in_flight))

(***************************************************************************)
(* What the environment and the configuration can answer.                   *)
(***************************************************************************)
\* queue.next_hop evaluated on the envelope.
RelayHosts ==
    {[address |-> "relay", port |-> 465, tls_implicit |-> TRUE,
      tls_allow_invalid_certs |-> TRUE]}
NoRelay == [address |-> "none", port |-> 0, tls_implicit |-> FALSE,
            tls_allow_invalid_certs |-> FALSE]
NextHops == {[some |-> FALSE, relay |-> NoRelay]}
            \cup {[some |-> TRUE, relay |-> r] : r \in RelayHosts}

\* resolver.mx_lookup and queue.max_mx
MxLists ==
    {<<>>,
     <<[preference |-> 10, exchanges |-> <<>>]>>,
     <<[preference |-> 10, exchanges |-> <<"mx1">>],
       [preference |-> 20, exchanges |-> <<"mx2">>]>>}
MxLookups == {[err |-> e, list |-> <<>>] : e \in DnsErrorKinds}
             \cup {[err |-> "none", list |-> l] : l \in MxLists}
MaxMxValues == {2}

\* resolver.ip_lookup, queue.max_multihomed, queue.source_ipv4/6
Ip(v, a) == [v |-> v, a |-> a]
IpLists == {<<>>, <<Ip(4, 1), Ip(6, 1)>>}
IpLookups == {[err |-> e, ips |-> <<>>] : e \in DnsErrorKinds}
             \cup {[err |-> "none", ips |-> l] : l \in IpLists}
MaxMultihomedValues == {2}
SourceIpv4Values == {<<Ip(4, 9)>>}
SourceIpv6Values == {<<>>}
MaxSourceIps == 1

\* SmtpClient::connect / connect_using
ConnectResults == {NoError, [kind |-> "Io", severity |-> 0],
                   [kind |-> "Timeout", severity |-> 0]}

\* queue.encryption evaluated on the envelope
TlsStrategies == {"optional", "require", "dane"}
is_dane(strategy) == strategy = "dane"
is_tls_required(strategy) == strategy = "require"

\* What read_greeting, try_start_tls and into_tls report on failure.
FailureStatuses ==
    {TemporaryFailure("ConnectionError"), TemporaryFailure("UnexpectedResponse"),
     PermanentFailure("UnexpectedResponse")}
Severities == {PositiveCompletion, TransientNegativeCompletion, PermanentNegativeCompletion}

\* The errors EHLO and MAIL FROM can end the transaction with.
PreErrors ==
    {NoError, UnexpectedReply(TransientNegativeCompletion),
     UnexpectedReply(PermanentNegativeCompletion), [kind |-> "Timeout", severity |-> 0]}
\* The reply of STARTTLS when the server does not offer it.
UnavailableResponses == {TransientNegativeCompletion, PermanentNegativeCompletion}

\* The scripts a transaction with n recipients can follow; DATA is sent only
\* when a recipient was accepted.
DeliverScripts(n) ==
    {[pre |-> e, rcpt |-> [i \in 1..n |-> PositiveCompletion], data |-> PositiveCompletion] :
        e \in PreErrors \ {NoError}}
    \cup {[pre |-> NoError, rcpt |-> r, data |-> d] :
            r \in {x \in [1..n -> Severities] : \E i \in 1..n : x[i] = PositiveCompletion},
            d \in Severities}
    \cup {[pre |-> NoError, rcpt |-> r, data |-> PositiveCompletion] :
            r \in [1..n -> Severities \ {PositiveCompletion}]}

\* The transaction followed by the next address of the host, as after a
\* failed connection, in place of the next domain.
DeliverStepNextIp(at, conc, t, script) ==
    LET d == deliver(at.message.recipients, at.domain_idx, script)
        r == set_status(at.message.domains[at.domain_idx], d.status, RetrySchedule, t,
                        overflow_checks)
    IN ContinueNextIp([at EXCEPT !.pc = "ip", !.message.recipients = d.recipients,
                                 !.message.domains[at.domain_idx] = r.v],
                      conc)

\* Lines 223-234, 250-258, 288-300: the transaction and its result.
DeliverStep(at, conc, t, script) ==
    LET d == deliver(at.message.recipients, at.domain_idx, script)
    IN SetStatusStep([at EXCEPT !.message.recipients = d.recipients], conc, d.status, t)

\* The list of remote hosts is known: the loop over hosts starts.
StartHosts(at, r, hosts) ==
    Step([at EXCEPT !.pc = "host", !.in_flight_rcpt = r.in_flight,
                    !.remote_hosts = hosts, !.host_idx = 1, !.last_status = Scheduled],
         r.concurrent)

(***************************************************************************)
(* Actions.                                                                 *)
(***************************************************************************)
\* What is recorded of a message when it is dropped.
Summary(message, how) ==
    [id |-> message.id,
     pending |-> Cardinality({i \in DOMAIN message.domains :
                                ~IsTerminal(message.domains[i].status)}),
     scheduled |-> Cardinality({i \in DOMAIN message.recipients :
                                  message.recipients[i].status.s = "Scheduled"}),
     how |-> how]

\* The queue manager runs one handler at a time; it is inside try_deliver
\* until the task is spawned or the message is re-filed.
ManagerFree == \A a \in Slots : attempt[a].pc # "sender"

FreeSlot == Min({a \in Slots : attempt[a].pc = "idle"})

KeysOf(tokens) == {tokens[i] : i \in DOMAIN tokens}

\* The limiter tells the queue manager of every token that is given back
\* (Event::LimiterReleased(key)); nobody listens once the manager has ended.
\* Pending notifications of one key count as one, and their order among the
\* other events of the channel is not kept.
Notified(keys) == released' = IF stopped THEN released ELSE released \cup keys

\* A step of the task takes effect; a panic unwinds the task, which drops
\* the message and every token it holds.
Commit(a, r) ==
    LET after == IF r.panic
                 THEN Release(Release(Release(r.conc, r.at.in_flight_host),
                                      r.at.in_flight_rcpt), r.at.in_flight)
                 ELSE r.conc
    IN /\ attempt' = [attempt EXCEPT ![a] = IF r.panic THEN IdleAttempt ELSE r.at]
       /\ concurrent' = after
       /\ Notified({k \in Keys : after[k] < concurrent[k]})
       /\ destroyed' = IF r.panic
                       THEN destroyed \cup {Summary(r.at.message, "panic")}
                       ELSE destroyed

Tick ==
    /\ now < MaxTime
    /\ now' = now + 1
    /\ UNCHANGED <<main, on_hold, chan, attempt, concurrent, destroyed, stopped, released,
                   whole_capture,
                   overflow_checks, pure>>

\* Queue manager: a message whose due time has come is handed to a new attempt.
Dispatch ==
    /\ ~stopped
    /\ ManagerFree
    /\ \E a \in Slots : attempt[a].pc = "idle"
    /\ \E entry \in main :
          /\ entry.due <= now
          /\ main' = main \ {entry}
          /\ attempt' = [attempt EXCEPT ![FreeSlot] = NewAttempt(entry.inner)]
    /\ UNCHANGED <<now, on_hold, chan, concurrent, destroyed, stopped, released,
                   whole_capture,
                   overflow_checks, pure>>

\* Queue manager: Event::LimiterReleased(key) arrives.  Every entry on hold
\* whose limiter set holds the key is re-enqueued in main, due at once.
LimiterReleased ==
    /\ ~stopped
    /\ ManagerFree
    /\ \E key \in released :
          LET woken == {e \in on_hold : key \in KeysOf(e.limiters)}
          IN /\ released' = released \ {key}
             /\ on_hold' = on_hold \ woken
             /\ main' = main \cup {[due |-> now, inner |-> e.message] : e \in woken}
    /\ UNCHANGED <<now, chan, attempt, concurrent, destroyed, stopped, whole_capture,
                   overflow_checks, pure>>

\* Queue manager: the timer ticks.  Every entry on hold whose next_due has
\* elapsed is re-enqueued in main, due at once.
OnHoldTimer ==
    /\ ~stopped
    /\ ManagerFree
    /\ LET woken == {e \in on_hold : e.next_due # None /\ e.next_due[1] <= now}
       IN /\ woken # {}
          /\ on_hold' = on_hold \ woken
          /\ main' = main \cup {[due |-> now, inner |-> e.message] : e \in woken}
    /\ UNCHANGED <<now, chan, attempt, concurrent, destroyed, stopped, released,
                   whole_capture, overflow_checks, pure>>

\* Queue manager: Event::Done(result) is taken from the channel.
Receive ==
    /\ ~stopped
    /\ ManagerFree
    /\ chan # <<>>
    /\ LET result == Head(chan)
       IN /\ main' = IF result.kind = "Retry"
                     THEN main \cup {[due |-> result.due[1], inner |-> result.message]}
                     ELSE main
          /\ on_hold' = IF result.kind = "OnHold"
                        THEN on_hold \cup {[next_due |-> result.due,
                                            limiters |-> result.limiters,
                                            message |-> result.message]}
                        ELSE on_hold
    /\ chan' = Tail(chan)
    /\ UNCHANGED <<now, attempt, concurrent, destroyed, stopped, released, whole_capture,
                   overflow_checks, pure>>

\* Queue manager: Event::Stop.  The manager ends and the receiver of the
\* channel is dropped with it: the events still in the channel, the limiter
\* notifications among them, are dropped,
\* and no message is dispatched or received any more.
Stop ==
    /\ ~stopped
    /\ ManagerFree
    /\ stopped' = TRUE
    /\ chan' = <<>>
    /\ destroyed' = destroyed \cup {Summary(chan[i].message, "closed") :
                                      i \in {j \in DOMAIN chan : chan[j].kind # "Done"}}
    /\ released' = {}
    /\ UNCHANGED <<now, main, on_hold, attempt, concurrent, whole_capture,
                   overflow_checks, pure>>

\* The sender throttle without its `return`: the message is filed and the
\* attempt goes on with it.
SenderErrorNoReturn(a, r, retry_at) ==
    /\ IF r.err = "Concurrency"
       THEN /\ on_hold' = on_hold \cup
                   {[next_due |-> next_event_after(attempt[a].message, now),
                     limiters |-> <<r.limiter>>,
                     message |-> attempt[a].message]}
            /\ UNCHANGED main
       ELSE /\ main' = main \cup {[due |-> retry_at, inner |-> attempt[a].message]}
            /\ UNCHANGED on_hold
    /\ attempt' = [attempt EXCEPT ![a].pc = "domain", ![a].domain_idx = 1]
    /\ concurrent' = r.concurrent
    /\ Notified({})

\* The sender throttle treating a rate failure as the domain throttle does:
\* retry_at is also written into every domain's retry.due.
SenderErrorSetsDue(a, r, retry_at) ==
    /\ IF r.err = "Concurrency"
       THEN /\ on_hold' = on_hold \cup
                   {[next_due |-> next_event_after(attempt[a].message, now),
                     limiters |-> <<r.limiter>>,
                     message |-> attempt[a].message]}
            /\ UNCHANGED main
       ELSE /\ main' = main \cup
                   {[due |-> retry_at,
                     inner |-> [attempt[a].message EXCEPT
                                   !.domains = [i \in DOMAIN @ |->
                                                   [@[i] EXCEPT !.retry.due = retry_at]]]]}
            /\ UNCHANGED on_hold
    /\ attempt' = [attempt EXCEPT ![a] = IdleAttempt]
    /\ concurrent' = Release(r.concurrent, r.in_flight)
    /\ Notified(KeysOf(r.in_flight))

\* The sender throttle failed: the message is re-filed, try_deliver returns
\* and what is left of `self` is dropped.
SenderError(a, r, retry_at) ==
    /\ IF r.err = "Concurrency"
       THEN /\ on_hold' = on_hold \cup
                   {[next_due |-> next_event_after(attempt[a].message, now),
                     limiters |-> <<r.limiter>>,
                     message |-> attempt[a].message]}
            /\ UNCHANGED main
       ELSE /\ main' = main \cup {[due |-> retry_at, inner |-> attempt[a].message]}
            /\ UNCHANGED on_hold
    /\ attempt' = [attempt EXCEPT ![a] = IdleAttempt]
    /\ concurrent' = Release(r.concurrent, r.in_flight)
    /\ Notified(KeysOf(r.in_flight))

\* tokio::spawn: the task owns the message; self.in_flight goes with it only
\* if the block captures all of `self`, otherwise it is dropped on return.
Spawn(a, r) ==
    /\ attempt' = [attempt EXCEPT ![a].pc = "domain", ![a].domain_idx = 1,
                                  ![a].in_flight = IF whole_capture THEN r.in_flight
                                                   ELSE <<>>]
    /\ concurrent' = IF whole_capture THEN r.concurrent
                     ELSE Release(r.concurrent, r.in_flight)
    /\ Notified(IF whole_capture THEN {} ELSE KeysOf(r.in_flight))
    /\ UNCHANGED <<main, on_hold>>

\* try_deliver up to tokio::spawn (lines 22-54).
SenderThrottle(a) ==
    /\ attempt[a].pc = "sender"
    /\ \E rate_fail \in 0..Len(SenderRules), wait \in 1..MaxRateWait :
          LET r == ThrottleLoop(SenderRules, 1, concurrent, attempt[a].in_flight, rate_fail)
          IN IF r.err # "none" THEN SenderError(a, r, now + wait) ELSE Spawn(a, r)
    /\ UNCHANGED <<now, chan, destroyed, stopped, whole_capture, overflow_checks, pure>>

\* Lines 61-93: the head of the loop over domains and the recipient-domain
\* throttle.  With its tokens taken the task waits for the next hop and the
\* MX lookup.
NextDomain(a) ==
    /\ attempt[a].pc = "domain"
    /\ LET at == attempt[a]
       IN IF at.domain_idx > Len(at.message.domains)
          THEN Commit(a, Step([at EXCEPT !.pc = "notify"], concurrent))
          ELSE IF ~IsDue(at.message.domains[at.domain_idx], now)
          THEN Commit(a, ContinueNextDomain(at, concurrent))
          ELSE \E rate_fail \in 0..Len(RcptRules) :
                  LET r == ThrottleLoop(RcptRules, 1, concurrent, <<>>, rate_fail)
                  IN IF r.err # "none"
                     THEN \E wait \in 1..MaxRateWait :
                             Commit(a, ThrottleErrorStep(at, concurrent, r, now + wait))
                     ELSE Commit(a, Step([at EXCEPT !.pc = "lookup",
                                                    !.in_flight_rcpt = r.in_flight],
                                         r.concurrent))
    /\ UNCHANGED <<now, main, on_hold, chan, stopped, whole_capture, overflow_checks, pure>>

\* Lines 96-141: the list of remote hosts, from the next hop or from the MX
\* lookup (in_flight of the domain is held meanwhile); a failed lookup sets
\* the status of the domain and goes to the next domain.
RemoteHosts(a) ==
    /\ attempt[a].pc = "lookup"
    /\ LET at == attempt[a]
           r == [in_flight |-> at.in_flight_rcpt, concurrent |-> concurrent]
       IN \E hop \in NextHops :
             IF hop.some
             THEN Commit(a, StartHosts(at, r, <<Relay(hop.relay)>>))
             ELSE \E mx \in MxLookups :
                     IF mx.err # "none"
                     THEN Commit(a, SetStatusStep(at, concurrent, StatusFromDns(mx.err), now))
                     ELSE \E max_mx \in MaxMxValues, shuffled \in Shuffles(mx.list) :
                             Commit(a, StartHosts(at, r,
                                 remote_hosts_of("domain", mx.list, max_mx, shuffled)))
    /\ UNCHANGED <<now, main, on_hold, chan, stopped, whole_capture, overflow_checks, pure>>

\* Lines 146-158 and 304-305: the head of the loop over hosts; after the
\* last host the last status seen is set on the domain.
NextHost(a) ==
    /\ attempt[a].pc = "host"
    /\ LET at == attempt[a]
       IN IF at.host_idx > Len(at.remote_hosts)
          THEN Commit(a, SetStatusStep(at, concurrent, at.last_status, now))
          ELSE \E lookup \in IpLookups :
                  IF lookup.err # "none"
                  THEN Commit(a, ContinueNextHost(
                                   [at EXCEPT !.last_status = StatusFromDns(lookup.err)],
                                   concurrent))
                  ELSE \E max_multihomed \in MaxMultihomedValues,
                          source_ipv4 \in SourceIpv4Values, source_ipv6 \in SourceIpv6Values,
                          rnd \in 1..MaxSourceIps :
                          LET r == resolve_host(lookup, max_multihomed, source_ipv4,
                                                source_ipv6, rnd)
                          IN IF ~r.ok
                             THEN Commit(a, ContinueNextHost(
                                              [at EXCEPT !.last_status = r.status],
                                              concurrent))
                             ELSE Commit(a, Step([at EXCEPT !.pc = "ip",
                                                            !.source_ip = r.source_ip,
                                                            !.remote_ips = r.remote_ips,
                                                            !.ip_idx = 1],
                                                 concurrent))
    /\ UNCHANGED <<now, main, on_hold, chan, stopped, whole_capture, overflow_checks, pure>>

\* Lines 162-175: the remote host throttle before one address is tried.
\* With its tokens taken the task waits for the connection.
HostThrottle(a, rules) ==
    /\ attempt[a].pc = "ip"
    /\ LET at == attempt[a]
       IN \E rate_fail \in 0..Len(rules) :
             LET r == ThrottleLoop(rules, 1, concurrent, <<>>, rate_fail)
             IN IF r.err # "none"
                THEN \E wait \in 1..MaxRateWait :
                        Commit(a, ThrottleErrorStep(at, concurrent, r, now + wait))
                ELSE Commit(a, Step([at EXCEPT !.pc = "connect",
                                               !.in_flight_host = r.in_flight],
                                    r.concurrent))
    /\ UNCHANGED <<now, main, on_hold, chan, stopped, whole_capture, overflow_checks, pure>>

NextIp(a) == HostThrottle(a, HostRules)
NextIpWide(a) == HostThrottle(a, WideHostRules)

\* Lines 178-198: SmtpClient::connect / connect_using to the address
\* (in_flight_host is held meanwhile); a failed connection goes to the next
\* address.
Connect(a) ==
    /\ attempt[a].pc = "connect"
    /\ LET at == attempt[a]
       IN \E connect \in ConnectResults :
             IF connect.kind # "none"
             THEN Commit(a, ContinueNextIp([at EXCEPT !.last_status = StatusFromSmtp(connect)],
                                           concurrent))
             ELSE Commit(a, Step([at EXCEPT !.pc = "session"], concurrent))
    /\ UNCHANGED <<now, main, on_hold, chan, stopped, whole_capture, overflow_checks, pure>>

\* Lines 239-240: TLS is mandated by the strategy or by the message.
TlsMandatedStrategyOnly(tls_strategy, flags) == is_tls_required(tls_strategy)

TlsMandated(tls_strategy, flags) == is_tls_required(tls_strategy) \/ flags

\* Lines 200-295: the session on an open connection up to the call of
\* deliver.  secure: the client handed to deliver is a TLS stream.
Session(a) ==
    /\ attempt[a].pc = "session"
    /\ LET at == attempt[a]
           remote_host == at.remote_hosts[at.host_idx]
           failed(status) == Commit(a, ContinueNextHost([at EXCEPT !.last_status = status],
                                                        concurrent))
           deliver_over(tls_strategy, secure) ==
               Commit(a, Step([at EXCEPT !.pc = "deliver", !.tls_strategy = tls_strategy,
                                         !.secure = secure],
                              concurrent))
       IN \E tls_strategy \in TlsStrategies :
             IF is_dane(tls_strategy)
             THEN Commit(a, PanicStep(at, concurrent))                  \* todo!()
             ELSE IF ~implicit_tls(remote_host)
             THEN \E greeting \in {Scheduled} \cup FailureStatuses :
                     IF greeting # Scheduled
                     THEN failed(greeting)
                     ELSE \E tls \in {"Success", "Unavailable", "Err"} :
                             IF tls = "Success"
                             THEN deliver_over(tls_strategy, TRUE)
                             ELSE IF tls = "Unavailable"
                             THEN IF TlsMandated(tls_strategy, at.message.flags)
                                  THEN \E response \in UnavailableResponses :
                                          failed(StatusFromSmtp(UnexpectedReply(response)))
                                  ELSE deliver_over(tls_strategy, FALSE)
                             ELSE \E status \in FailureStatuses : failed(status)
             ELSE \E into_tls \in {Scheduled} \cup FailureStatuses :
                     IF into_tls # Scheduled
                     THEN failed(into_tls)
                     ELSE \E greeting \in {Scheduled} \cup FailureStatuses :
                             IF greeting # Scheduled
                             THEN failed(greeting)
                             ELSE deliver_over(tls_strategy, TRUE)
    /\ UNCHANGED <<now, main, on_hold, chan, stopped, whole_capture, overflow_checks, pure>>

\* Lines 225-233, 250-258, 288-300: self.message.deliver(..) and the status
\* of the domain set from its result.
Deliver(a) ==
    /\ attempt[a].pc = "deliver"
    /\ LET at == attempt[a]
       IN \E script \in DeliverScripts(Cardinality(RcptOfDomain(at.message.recipients,
                                                                at.domain_idx))) :
             Commit(a, DeliverStep(at, concurrent, now, script))
    /\ UNCHANGED <<now, main, on_hold, chan, stopped, whole_capture, overflow_checks, pure>>

\* Lines 307-331: the result is sent to the queue manager.  The message of a
\* Done result stays behind and is dropped with the task.  When the receiver
\* is gone the send fails and the result is dropped, its message with it.
\* The send is an await: when the block owns all of `self` the task still
\* owns self.in_flight after it, until the block ends.
Notify(a) ==
    /\ attempt[a].pc = "notify"
    /\ LET result == WorkerResult(attempt[a].on_hold, attempt[a].message, now)
           kept == IF result.kind = "Done" THEN attempt[a].message ELSE NoMessage
           lost == IF stopped /\ result.kind # "Done"
                   THEN {Summary(attempt[a].message, "closed")}
                   ELSE {}
       IN /\ chan' = IF stopped THEN chan ELSE Append(chan, result)
          /\ IF whole_capture
             THEN /\ attempt' = [attempt EXCEPT ![a].pc = "sent", ![a].message = kept,
                                               ![a].on_hold = <<>>]
                  /\ destroyed' = destroyed \cup lost
             ELSE /\ attempt' = [attempt EXCEPT ![a] = IdleAttempt]
                  /\ destroyed' = IF result.kind = "Done"
                                  THEN destroyed \cup {Summary(kept, "done")}
                                  ELSE destroyed \cup lost
    /\ UNCHANGED <<now, main, on_hold, concurrent, stopped, released, whole_capture,
                   overflow_checks, pure>>

\* Line 333, the end of the block when it owns all of `self`: what is left
\* of self, self.in_flight with it, is dropped after the send.
Finish(a) ==
    /\ attempt[a].pc = "sent"
    /\ concurrent' = Release(concurrent, attempt[a].in_flight)
    /\ Notified(KeysOf(attempt[a].in_flight))
    /\ destroyed' = IF attempt[a].message # NoMessage
                    THEN destroyed \cup {Summary(attempt[a].message, "done")}
                    ELSE destroyed
    /\ attempt' = [attempt EXCEPT ![a] = IdleAttempt]
    /\ UNCHANGED <<now, main, on_hold, chan, stopped, whole_capture, overflow_checks, pure>>

NoPure == [op |-> "none"]

\* A queue whose one message was put on hold at time 0: its first domain
\* was refused by a rate limiter until MaxRateWait, its second was refused
\* the token of the remote host rule by an attempt that has ended since.
HeldMessage ==
    [NewMessage(1, NumDomains, FALSE, FALSE) EXCEPT
        !.domains[1] = set_throttle_error(NewDomain, <<>>, "Rate", "none",
                                          MaxRateWait).domain]
InitialOnHold ==
    {[next_due |-> next_event_after(HeldMessage, 0),
      limiters |-> <<HostRules[1].key>>,
      message |-> HeldMessage]}

\* A queue whose one message was tried one wait of the retry schedule before
\* time 1: its first domain was delivered, the lookup of its second failed,
\* and the result Retry put it back for time 1.
RetriedMessage ==
    [NewMessage(1, NumDomains, FALSE, FALSE) EXCEPT
        !.domains[1].status = Completed,
        !.recipients[1].status = Completed,
        !.domains[2] = set_status(NewDomain, TemporaryFailure("DNSError"),
                                  RetrySchedule, 1 - RetrySchedule[1], FALSE).v]
InitialRetry ==
    {[due |-> next_event(RetriedMessage)[1], inner |-> RetriedMessage]}

Init ==
    /\ now = 0
    /\ \/ /\ \E queue \in InitialQueues : main = {[due |-> 0, inner |-> m] : m \in queue}
          /\ on_hold = {}
       \/ /\ main = InitialRetry
          /\ on_hold = {}
       \/ /\ main = {}
          /\ on_hold = InitialOnHold
    /\ chan = <<>>
    /\ attempt = [a \in Slots |-> IdleAttempt]
    /\ concurrent = [k \in Keys |-> 0]
    /\ destroyed = {}
    /\ stopped = FALSE
    /\ released = {}
    /\ whole_capture \in BOOLEAN
    /\ overflow_checks = FALSE
    /\ pure = NoPure

Next ==
    \/ Tick
    \/ Dispatch
    \/ LimiterReleased
    \/ OnHoldTimer
    \/ Receive
    \/ Stop
    \/ \E a \in Slots : SenderThrottle(a)
    \/ \E a \in Slots : NextDomain(a)
    \/ \E a \in Slots : RemoteHosts(a)
    \/ \E a \in Slots : NextHost(a)
    \/ \E a \in Slots : NextIp(a)
    \/ \E a \in Slots : Connect(a)
    \/ \E a \in Slots : Session(a)
    \/ \E a \in Slots : Deliver(a)
    \/ \E a \in Slots : Notify(a)
    \/ \E a \in Slots : Finish(a)

Spec == Init /\ [][Next]_vars

\* Two messages of one sender, queued under the second configuration of the
\* remote host throttle and run by a build whose spawned block owns only the
\* fields it names.  No limiter is exhausted there and nothing is put on
\* hold, so the timer has no entry to wake.
InitWide ==
    /\ now = 0
    /\ main = {[due |-> 0, inner |-> NewMessage(m, 1, m = NumMsgs, FALSE)] : m \in Msgs}
    /\ on_hold = {}
    /\ chan = <<>>
    /\ attempt = [a \in Slots |-> IdleAttempt]
    /\ concurrent = [k \in Keys |-> 0]
    /\ destroyed = {}
    /\ stopped = FALSE
    /\ released = {}
    /\ whole_capture = FALSE
    /\ overflow_checks = FALSE
    /\ pure = NoPure

NextWide ==
    \/ Tick
    \/ Dispatch
    \/ LimiterReleased
    \/ Receive
    \/ Stop
    \/ \E a \in Slots : SenderThrottle(a)
    \/ \E a \in Slots : NextDomain(a)
    \/ \E a \in Slots : RemoteHosts(a)
    \/ \E a \in Slots : NextHost(a)
    \/ \E a \in Slots : NextIpWide(a)
    \/ \E a \in Slots : Connect(a)
    \/ \E a \in Slots : Session(a)
    \/ \E a \in Slots : Deliver(a)
    \/ \E a \in Slots : Notify(a)

SpecWide == InitWide /\ [][NextWide]_vars

(***************************************************************************)
(* Where the messages are.                                                  *)
(***************************************************************************)
InMain(id) == {e \in main : e.inner.id = id}
InOnHold(id) == {e \in on_hold : e.message.id = id}
OwnedBy(id) == {a \in Slots : attempt[a].message.id = id}
InChannel(id) == {i \in DOMAIN chan : chan[i].message.id = id}

Places(id) ==
    Cardinality(InMain(id)) + Cardinality(InOnHold(id)) + Cardinality(OwnedBy(id))
    + Cardinality(InChannel(id))

\* Every message that exists, wherever it is.
AllMessages ==
    ({e.inner : e \in main} \cup {e.message : e \in on_hold}
     \cup {attempt[a].message : a \in Slots} \cup {chan[i].message : i \in DOMAIN chan})
    \ {NoMessage}

\* Tokens of a key held by the attempts, and the attempts with an open connection.
RECURSIVE Count(_, _)
Count(tokens, key) ==
    IF tokens = <<>> THEN 0
    ELSE (IF Head(tokens) = key THEN 1 ELSE 0) + Count(Tail(tokens), key)

TokensOf(a, key) ==
    Count(attempt[a].in_flight, key) + Count(attempt[a].in_flight_rcpt, key)
    + Count(attempt[a].in_flight_host, key)

RECURSIVE SumOver(_, _)
SumOver(S, key) ==
    IF S = {} THEN 0
    ELSE LET a == CHOOSE x \in S : TRUE IN TokensOf(a, key) + SumOver(S \ {a}, key)

TokensHeld(key) == SumOver(Slots, key)
Connected == {a \in Slots : attempt[a].pc \in {"session", "deliver"}}

(***************************************************************************)
(* Claims.                                                                  *)
(***************************************************************************)
\* C1: every message is in at most one place: main, on_hold, one attempt or
\* the event channel.
C1_OnePlace == \A id \in Msgs : Places(id) <= 1

\* C1 witness: one attempt owns a message in an open session while another
\* message waits in on_hold.
C1_Witness ==
    \E a \in Slots :
        /\ attempt[a].pc = "session"
        /\ \E e \in on_hold : e.message.id # attempt[a].message.id

\* C2: a message is dropped only when every one of its domains is Completed
\* or PermanentFailure; until then it is in main, in on_hold, owned by an
\* attempt or in the event channel.
C2_NeverLost == \A d \in destroyed : d.pending = 0

\* The connections open under a key: every connection is made under the
\* sender and the recipient-domain rules, which the attempt passed before it
\* connected, and under the remote host rule whose token it holds.
ConnectedUnder(key) ==
    {a \in Connected :
        \/ \E i \in DOMAIN SenderRules : SenderRules[i].key = key
        \/ \E i \in DOMAIN RcptRules : RcptRules[i].key = key
        \/ Count(attempt[a].in_flight_host, key) > 0}

\* C3: for every limiter key, the attempts holding a token of the key, and
\* the connections open under the key, never exceed the concurrency of its
\* rule.
C3_ConcurrencyCap ==
    \A k \in Keys :
        /\ TokensHeld(k) <= max_concurrent(k)
        /\ Cardinality(ConnectedUnder(k)) <= max_concurrent(k)

C5_SkippedUnchanged ==
    [][\A m \in AllMessages : \A n \in AllMessages' :
          n.id = m.id =>
             \A i \in DOMAIN m.domains :
                ~(/\ m.domains[i].status.s \in {"Scheduled", "TemporaryFailure"}
                  /\ m.domains[i].retry.due <= now)
                => n.domains[i] = m.domains[i]]_vars

\* C5 witness: a later attempt works on the second domain, which failed
\* before, while the first domain is Completed.
C5_Witness ==
    \E a \in Slots :
        /\ attempt[a].pc = "host"
        /\ attempt[a].domain_idx = 2
        /\ attempt[a].message.domains[1].status.s = "Completed"
        /\ attempt[a].message.domains[2].retry.inner >= 1

\* C6: when a message ends with the result Done no recipient of it is left
\* Scheduled.
C6_NoRecipientScheduled == \A d \in destroyed : d.how = "done" => d.scheduled = 0

\* The step in which attempt a sends its result.
Notifies(a) ==
    /\ attempt[a].pc = "notify"
    /\ attempt'[a].pc # "notify"
    /\ Len(chan') = Len(chan) + 1
Sent == chan'[Len(chan')]

\* C7: a result Retry(due) carries the earliest due time of the domains that
\* are not terminal, and that time is later than the time of the result.
C7_RetryInFuture ==
    [][\A a \in Slots :
          Notifies(a) /\ Sent.kind = "Retry" =>
             /\ Sent.due[1] > now
             /\ \A i \in DOMAIN Sent.message.domains :
                   ~IsTerminal(Sent.message.domains[i].status)
                   => Sent.due[1] <= Sent.message.domains[i].retry.due
             /\ \E i \in DOMAIN Sent.message.domains :
                   /\ ~IsTerminal(Sent.message.domains[i].status)
                   /\ Sent.due[1] = Sent.message.domains[i].retry.due]_vars

\* C8: the result is OnHold when a limiter was collected, else Retry when a
\* domain is not terminal, else Done.
C8_ResultFolding ==
    [][\A a \in Slots :
          Notifies(a) =>
             LET pending == \E i \in DOMAIN attempt[a].message.domains :
                               ~IsTerminal(attempt[a].message.domains[i].status)
             IN /\ attempt[a].on_hold # <<>> =>
                      Sent.kind = "OnHold" /\ Sent.limiters = attempt[a].on_hold
                /\ attempt[a].on_hold = <<>> /\ pending => Sent.kind = "Retry"
                /\ attempt[a].on_hold = <<>> /\ ~pending => Sent.kind = "Done"
                /\ Sent.kind # "Done" => Sent.message = attempt[a].message]_vars

\* C8 witness: the channel holds a result OnHold that carries the limiter of
\* the remote host rule, collected in the loop over the domains, for a
\* message that has a domain left to try.
C8_Witness ==
    \E i \in DOMAIN chan :
        /\ chan[i].kind = "OnHold"
        /\ HostRules[1].key \in KeysOf(chan[i].limiters)
        /\ \E j \in DOMAIN chan[i].message.domains :
              ~IsTerminal(chan[i].message.domains[j].status)

\* C10: the counter of a domain moves only by one and only when the domain is
\* set to TemporaryFailure; a throttle failure (a limiter collected, or the
\* due time moved without a count) leaves status and counter as they were.
C10_CounterOnlyOnTemporaryFailure ==
    [][\A m \in AllMessages : \A n \in AllMessages' :
          n.id = m.id =>
             \A i \in DOMAIN m.domains :
                LET d == m.domains[i]
                    e == n.domains[i]
                IN /\ e.retry.inner # d.retry.inner =>
                         /\ e.status.s = "TemporaryFailure"
                         /\ e.retry.inner = d.retry.inner + 1
                   /\ e.status # d.status /\ e.status.s = "TemporaryFailure" =>
                         e.retry.inner = d.retry.inner + 1
                   /\ e.retry.due # d.retry.due /\ e.retry.inner = d.retry.inner =>
                         e.status = d.status
                   /\ (\E a \in Slots : /\ attempt[a].message.id = m.id
                                        /\ Len(attempt'[a].on_hold) > Len(attempt[a].on_hold))
                      => e = d]_vars

\* C10 witness: a domain was stopped by a concurrency limiter and is still
\* Scheduled with a counter of 0.
C10_Witness ==
    \E a \in Slots :
        /\ attempt[a].on_hold # <<>>
        /\ attempt[a].pc = "notify"
        /\ \A i \in DOMAIN attempt[a].message.domains :
              /\ attempt[a].message.domains[i].status = Scheduled
              /\ attempt[a].message.domains[i].retry.inner = 0

(***************************************************************************)
(* Domain::set_status on its own: every counter, every schedule.            *)
(***************************************************************************)
MaxSchedule == 3
Schedules == UNION {[1..n -> 1..2] : n \in 0..MaxSchedule}
SetStatusInputs ==
    [op : {"set_status"},
     domain : {[status |-> Scheduled, retry |-> [inner |-> k, due |-> 0]] :
                  k \in 0..(CounterMod - 1)},
     status : {TemporaryFailure("ConnectionError"), PermanentFailure("DNSError"), Completed},
     schedule : Schedules,
     done : {FALSE},
     result : {Ok(NewDomain)}]

InitSetStatus ==
    /\ now \in 0..MaxTime
    /\ main = {}
    /\ on_hold = {}
    /\ chan = <<>>
    /\ attempt = [a \in Slots |-> IdleAttempt]
    /\ concurrent = [k \in Keys |-> 0]
    /\ destroyed = {}
    /\ stopped = FALSE
    /\ released = {}
    /\ whole_capture = FALSE
    /\ overflow_checks \in BOOLEAN
    /\ pure \in SetStatusInputs

ApplySetStatus ==
    /\ pure.op = "set_status"
    /\ ~pure.done
    /\ pure' = [pure EXCEPT !.done = TRUE,
                            !.result = set_status(pure.domain, pure.status, pure.schedule,
                                                  now, overflow_checks)]
    /\ UNCHANGED <<now, main, on_hold, chan, attempt, concurrent, destroyed,
                   stopped, released, whole_capture, overflow_checks>>

NextSetStatus == ApplySetStatus
SpecSetStatus == InitSetStatus /\ [][NextSetStatus]_vars

\* C9: a domain with counter k set to TemporaryFailure under a schedule of N
\* durations gets due = now + schedule[min(k, N-1)] and counter k+1, without
\* a panic, for every k of the counter and every schedule.
C9_RetrySchedule ==
    pure.op = "set_status" /\ pure.done /\ pure.status.s = "TemporaryFailure" =>
        LET k == pure.domain.retry.inner
            N == Len(pure.schedule)
        IN /\ ~pure.result.panic
           /\ N > 0
           /\ pure.result.v.retry.due = now + pure.schedule[Min({k, N - 1}) + 1]
           /\ pure.result.v.retry.inner = k + 1

\* C11: a call of set_status on a domain that is due never lowers the retry
\* counter of the domain and never moves its due time back.
C11_CounterAndDueMonotonic ==
    pure.op = "set_status" /\ pure.done =>
        /\ pure.result.v.retry.inner >= pure.domain.retry.inner
        /\ pure.result.v.retry.due >= pure.domain.retry.due

\* C12: a message with MAIL_REQUIRETLS, or under a strategy that requires
\* TLS, is handed to deliver only over a connection that was upgraded to TLS.
C12_MandatedTlsNeverCleartext ==
    \A a \in Slots :
        attempt[a].pc = "deliver"
        /\ (attempt[a].message.flags \/ attempt[a].tls_strategy = "require")
        => attempt[a].secure

\* C12 witness: a message with MAIL_REQUIRETLS is about to be delivered over
\* TLS on the second host after the first host was given up.
C12_Witness ==
    \E a \in Slots :
        /\ attempt[a].pc = "deliver"
        /\ attempt[a].message.flags
        /\ attempt[a].secure
        /\ attempt[a].host_idx = 2
        /\ attempt[a].last_status.e = "UnexpectedResponse"

(***************************************************************************)
(* Functions on their own: the rest of the state is that of an idle queue.  *)
(***************************************************************************)
IdleQueue ==
    /\ main = {}
    /\ on_hold = {}
    /\ chan = <<>>
    /\ attempt = [a \in Slots |-> IdleAttempt]
    /\ concurrent = [k \in Keys |-> 0]
    /\ destroyed = {}
    /\ stopped = FALSE
    /\ released = {}
    /\ whole_capture = FALSE

QueueUnchanged ==
    UNCHANGED <<now, main, on_hold, chan, attempt, concurrent, destroyed, stopped, released,
                whole_capture, overflow_checks>>

(***************************************************************************)
(* TLS is mandated and every host answers STARTTLS with a refusal: lines    *)
(* 235-248 for each host, then line 305.                                    *)
(***************************************************************************)
MaxHosts == 2
UnavailableInputs ==
    [op : {"unavailable"},
     domain : {[status |-> st, retry |-> [inner |-> k, due |-> 0]] :
                  st \in {Scheduled, TemporaryFailure("ConnectionError")},
                  k \in 0..(CounterMod - 2)},
     schedule : Schedules \ {<<>>},
     responses : UNION {[1..n -> UnavailableResponses] : n \in 1..MaxHosts},
     host_idx : {1},
     last_status : {Scheduled},
     done : {FALSE},
     result : {Ok(NewDomain)}]

InitUnavailable ==
    /\ IdleQueue
    /\ now \in 0..MaxTime
    /\ overflow_checks \in BOOLEAN
    /\ pure \in UnavailableInputs

\* StartTlsResult::Unavailable with TLS mandated: the reply becomes the last
\* status and the next host is tried.
HostUnavailable ==
    /\ pure.op = "unavailable"
    /\ pure.host_idx <= Len(pure.responses)
    /\ pure' = [pure EXCEPT
                   !.last_status = StatusFromSmtp(UnexpectedReply(pure.responses[pure.host_idx])),
                   !.host_idx = @ + 1]
    /\ QueueUnchanged

\* No host is left: domain.set_status(last_status, ..).
HostsExhausted ==
    /\ pure.op = "unavailable"
    /\ pure.host_idx > Len(pure.responses)
    /\ ~pure.done
    /\ pure' = [pure EXCEPT !.done = TRUE,
                            !.result = set_status(pure.domain, pure.last_status, pure.schedule,
                                                  now, overflow_checks)]
    /\ QueueUnchanged

NextUnavailable == HostUnavailable \/ HostsExhausted
SpecUnavailable == InitUnavailable /\ [][NextUnavailable]_vars

\* C13: when TLS is mandated and every host tried refuses STARTTLS, whatever
\* the reply, the domain ends in TemporaryFailure with counter k+1 and
\* due = now + schedule[min(k, N-1)].
C13_MandatedTlsDefers ==
    pure.op = "unavailable" /\ pure.done =>
        LET k == pure.domain.retry.inner
            N == Len(pure.schedule)
        IN /\ ~pure.result.panic
           /\ pure.result.v.status.s = "TemporaryFailure"
           /\ pure.result.v.retry.inner = k + 1
           /\ pure.result.v.retry.due = now + pure.schedule[Min({k, N - 1}) + 1]

(***************************************************************************)
(* The transaction of one domain on its own: lines 225-233 and 297-300.     *)
(***************************************************************************)
MaxRcpt == 3
DeliverInputs ==
    {[op |-> "deliver", message |-> m, domain_idx |-> d, script |-> sc, done |-> FALSE] :
        m \in {[id |-> 1, flags |-> FALSE,
                domains |-> [i \in 1..NumDomains |-> NewDomain],
                recipients |-> [i \in 1..n |-> [domain_idx |-> f[i], status |-> Scheduled]]] :
                  n \in {MaxRcpt},
                  f \in {g \in [1..MaxRcpt -> 1..NumDomains] :
                            \A x \in 1..NumDomains : \E i \in 1..MaxRcpt : g[i] = x}},
        d \in 1..NumDomains,
        sc \in [pre : PreErrors, rcpt : [1..MaxRcpt -> Severities], data : Severities]}

InitDeliver ==
    /\ IdleQueue
    /\ now \in 0..MaxTime
    /\ overflow_checks = FALSE
    /\ pure \in DeliverInputs

ApplyDeliver ==
    /\ pure.op = "deliver"
    /\ ~pure.done
    /\ LET at == [IdleAttempt EXCEPT !.pc = "deliver", !.message = pure.message,
                                     !.domain_idx = pure.domain_idx]
       IN pure' = [pure EXCEPT !.done = TRUE,
                               !.message = DeliverStep(at, concurrent, now,
                                                       pure.script).at.message]
    /\ QueueUnchanged

NextDeliver == ApplyDeliver
SpecDeliver == InitDeliver /\ [][NextDeliver]_vars

\* The recipients of the domain under delivery, and the reply to each.
C14_Mine == {i \in DOMAIN pure.message.recipients :
                pure.message.recipients[i].domain_idx = pure.domain_idx}
C14_Reply(i) == pure.script.rcpt[Cardinality({j \in C14_Mine : j <= i})]
C14_DataAccepted ==
    /\ pure.script.pre.kind = "none"
    /\ \E i \in C14_Mine : C14_Reply(i) = PositiveCompletion
    /\ pure.script.data = PositiveCompletion

\* C14: when DATA is accepted the domain is Completed although some RCPT TO
\* were refused; a recipient refused with 5xx is PermanentFailure, with 4xx
\* TemporaryFailure, an accepted one Completed; recipients and domains other
\* than those of the domain under delivery stay as they were.
C14_PartialSuccess ==
    pure.op = "deliver" /\ pure.done =>
        /\ C14_DataAccepted =>
              /\ pure.message.domains[pure.domain_idx].status = Completed
              /\ pure.message.domains[pure.domain_idx].retry = NewDomain.retry
              /\ \A i \in C14_Mine :
                    pure.message.recipients[i].status.s =
                        CASE C14_Reply(i) = PositiveCompletion -> "Completed"
                          [] C14_Reply(i) = PermanentNegativeCompletion -> "PermanentFailure"
                          [] OTHER -> "TemporaryFailure"
        /\ \A i \in DOMAIN pure.message.recipients \ C14_Mine :
              pure.message.recipients[i].status = Scheduled
        /\ \A j \in DOMAIN pure.message.domains \ {pure.domain_idx} :
              pure.message.domains[j] = NewDomain

\* C14 witness: DATA was accepted after one recipient of the domain was
\* refused with 5xx and one accepted, and another domain has a recipient.
C14_Witness ==
    /\ pure.op = "deliver"
    /\ pure.done
    /\ C14_DataAccepted
    /\ \E i \in C14_Mine : C14_Reply(i) = PermanentNegativeCompletion
    /\ pure.message.domains[pure.domain_idx].status = Completed

\* C15: while hosts are left, a failure of a host (address lookup, connect,
\* greeting, STARTTLS, TLS handshake) leaves the domain as it is; after the
\* last host the domain gets the last status seen; a transaction that ends
\* Completed leaves the retry state alone whatever failed before.
C15_HostFailuresFoldedAtEnd ==
    [][\A a \in Slots :
          LET at == attempt[a]
              to == attempt'[a]
              d == at.message.domains[at.domain_idx]
              e == to.message.domains[at.domain_idx]
          IN /\ at.pc \in {"host", "ip", "connect", "session", "deliver"}
             /\ to # at
             /\ to.message.id = at.message.id
             =>
               /\ at.pc = "host" /\ at.host_idx > Len(at.remote_hosts) =>
                     /\ e.status = at.last_status
                     /\ IF at.last_status.s = "TemporaryFailure"
                        THEN e.retry.inner = d.retry.inner + 1
                        ELSE e.retry = d.retry
               /\ at.pc = "host" /\ at.host_idx <= Len(at.remote_hosts) => e = d
               /\ at.pc \in {"connect", "session"} => e = d
               /\ at.pc = "ip" => e.status = d.status /\ e.retry.inner = d.retry.inner
               /\ at.pc = "ip" /\ to.pc # "domain" => e = d
               /\ at.pc = "deliver" /\ e.status = Completed => e.retry = d.retry]_vars

\* C15 witness: the transaction runs on the second host after the first
\* host failed, and the domain is still Scheduled with a counter of 0.
C15_Witness ==
    \E a \in Slots :
        /\ attempt[a].pc = "deliver"
        /\ attempt[a].host_idx = 2
        /\ attempt[a].last_status.s = "TemporaryFailure"
        /\ attempt[a].message.domains[attempt[a].domain_idx] = NewDomain

(***************************************************************************)
(* The two conversions into Status on their own: lines 462-510.             *)
(***************************************************************************)
\* smtp_proto::Severity: the first digit of a reply code (0: invalid).
ReplySeverities == {0} \cup 2..5
\* mail_auth::Error
AllDnsErrorKinds ==
    {"DNSRecordNotFound", "DNSError", "ParseError", "MissingParameters", "NoHeadersFound",
     "CryptoError", "Io", "Base64", "UnsupportedVersion", "UnsupportedAlgorithm",
     "InvalidRecordType", "NotAligned"}
ClassifyInputs ==
    [op : {"classify"}, from : {"mail_send"}, kind : SmtpErrorKinds,
     severity : ReplySeverities, done : {FALSE}, result : {Scheduled}]
    \cup [op : {"classify"}, from : {"mail_auth"}, kind : AllDnsErrorKinds,
          severity : {0}, done : {FALSE}, result : {Scheduled}]

InitClassify ==
    /\ IdleQueue
    /\ now = 0
    /\ overflow_checks = FALSE
    /\ pure \in ClassifyInputs

ClassifySmtp ==
    /\ pure.op = "classify"
    /\ pure.from = "mail_send"
    /\ ~pure.done
    /\ pure' = [pure EXCEPT !.done = TRUE,
                            !.result = StatusFromSmtp([kind |-> pure.kind,
                                                       severity |-> pure.severity])]
    /\ QueueUnchanged

ClassifyDns ==
    /\ pure.op = "classify"
    /\ pure.from = "mail_auth"
    /\ ~pure.done
    /\ pure' = [pure EXCEPT !.done = TRUE, !.result = StatusFromDns(pure.kind)]
    /\ QueueUnchanged

NextClassify == ClassifySmtp \/ ClassifyDns
SpecClassify == InitClassify /\ [][NextClassify]_vars

\* C16: every error of the SMTP client other than an unexpected reply gives
\* TemporaryFailure(ConnectionError); an unexpected reply gives
\* PermanentFailure(UnexpectedResponse) exactly when its severity is 5 and
\* TemporaryFailure(UnexpectedResponse) otherwise; DNS record-not-found gives
\* PermanentFailure(DNSError), every other DNS error TemporaryFailure(DNSError).
C16_Classification ==
    pure.op = "classify" /\ pure.done =>
        /\ pure.from = "mail_send" /\ pure.kind # "UnexpectedReply" =>
              pure.result = [s |-> "TemporaryFailure", e |-> "ConnectionError"]
        /\ pure.from = "mail_send" /\ pure.kind = "UnexpectedReply" =>
              pure.result = [s |-> IF pure.severity = 5 THEN "PermanentFailure"
                                   ELSE "TemporaryFailure",
                             e |-> "UnexpectedResponse"]
        /\ pure.from = "mail_auth" =>
              pure.result = [s |-> IF pure.kind = "DNSRecordNotFound" THEN "PermanentFailure"
                                   ELSE "TemporaryFailure",
                             e |-> "DNSError"]

\* C16 witness: a 5xx reply was classified as a permanent failure.
C16_Witness ==
    /\ pure.op = "classify"
    /\ pure.done
    /\ pure.kind = "UnexpectedReply"
    /\ pure.severity = 5
    /\ pure.result.s = "PermanentFailure"

\* C17: an attempt whose strategy is DANE finishes as every other attempt:
\* no task ends by a panic, every message that is dropped was dropped with the
\* result Done.  (The retry schedule is not empty and the counters stay below
\* their maximum here, so todo!() is the only panic there can be.)
C17_DaneFinishesNormally == \A d \in destroyed : d.how # "panic"

\* C18: an attempt ends only by handing its message back, once: re-filed in
\* main or on_hold by the sender throttle, or sent as one Event::Done.
C18_HandsBackOnce ==
    [][\A a \in Slots :
          attempt[a].pc \notin {"idle", "sent"} /\ attempt'[a].pc \in {"idle", "sent"} =>
             LET m == attempt[a].message
                 filed == Cardinality({e \in main' \ main : e.inner = m})
                          + Cardinality({e \in on_hold' \ on_hold : e.message = m})
             IN \/ attempt[a].pc = "sender" /\ filed = 1 /\ chan' = chan
                \/ /\ attempt[a].pc = "notify"
                   /\ filed = 0
                   /\ Len(chan') = Len(chan) + 1
                   /\ Sent.message \in {m, NoMessage}]_vars

\* C20: when the sender throttle fails, the message is re-filed unchanged
\* and nothing else happens: on a rate failure one entry [due = retry_at, the
\* message] is added to main, on a concurrency failure one entry with the
\* single exhausted limiter and the message is added to on_hold; the attempt
\* ends without a task (it never reaches a domain), nothing is sent to the
\* queue manager, no token is kept and no other attempt is touched.
C20_SenderThrottleFrame ==
    [][\A a \in Slots :
          attempt[a].pc = "sender" /\ attempt'[a].pc # "domain" /\ attempt'[a] # attempt[a] =>
             LET m == attempt[a].message
             IN /\ attempt'[a] = IdleAttempt
                /\ \A b \in Slots \ {a} : attempt'[b] = attempt[b]
                /\ chan' = chan
                /\ destroyed' = destroyed
                /\ concurrent' = concurrent
                /\ \/ /\ on_hold' = on_hold
                      /\ \E retry_at \in (now + 1)..(now + MaxRateWait) :
                            /\ [due |-> retry_at, inner |-> m] \notin main
                            /\ main' = main \cup {[due |-> retry_at, inner |-> m]}
                   \/ /\ main' = main
                      /\ \E e \in on_hold' \ on_hold :
                            /\ on_hold' = on_hold \cup {e}
                            /\ e.message = m
                            /\ Len(e.limiters) = 1
                            /\ \E i \in DOMAIN SenderRules :
                                  /\ e.limiters[1] = SenderRules[i].key
                                  /\ concurrent[e.limiters[1]]
                                        >= SenderRules[i].concurrency]_vars

\* The sender throttle has failed on its concurrency limit: the message is
\* on hold, untouched, with the sender limiter, while the attempt holding
\* the token still runs.
C20_Witness ==
    /\ concurrent["sender"] = max_concurrent("sender")
    /\ \E a \in Slots : attempt[a].pc = "deliver"
    /\ \E e \in on_hold :
          /\ e.limiters = <<"sender">>
          /\ e.message = NewMessage(e.message.id, 1, e.message.flags, FALSE)

(***************************************************************************)
(* Throttle failures of one domain.                                         *)
(***************************************************************************)
\* The step of attempt a is a throttle failure on its current domain: from
\* the recipient-domain throttle the domain is left with status and counter
\* as they were (a failed MX lookup changes them), from the host throttle
\* the loop over addresses is left for the loop over domains.
InTask(pc) == pc \in {"domain", "lookup", "host", "ip", "connect", "session", "deliver"}
C21_ThrottleStop(a) ==
    LET at == attempt[a]
        to == attempt'[a]
    IN /\ at.pc \in {"domain", "ip"}
       /\ to # at
       /\ to.message.id = at.message.id
       /\ at.domain_idx \in DOMAIN at.message.domains
       /\ IsDue(at.message.domains[at.domain_idx], now)
       /\ to.pc \notin {"lookup", "host", "ip", "connect", "session"}
       /\ to.message.domains[at.domain_idx].status = at.message.domains[at.domain_idx].status
       /\ to.message.domains[at.domain_idx].retry.inner
             = at.message.domains[at.domain_idx].retry.inner

\* C21: a throttle failure on a domain ends that domain only.  The step goes
\* to the next domain of the loop; a concurrency failure appends its limiter
\* to the on_hold list, a rate failure moves the domain's due time, nothing
\* else of the message changes; the loop never goes back to a domain, so no
\* connection is opened for it afterwards, and the loop is left only after
\* the last domain, so every later domain is still attempted.
C21_ThrottleEndsDomainOnly ==
    [][\A a \in Slots :
          LET at == attempt[a]
              to == attempt'[a]
              i == at.domain_idx
          IN /\ C21_ThrottleStop(a) =>
                   /\ to.pc = "domain"
                   /\ to.domain_idx = i + 1
                   /\ to.message.recipients = at.message.recipients
                   /\ \A j \in DOMAIN at.message.domains :
                         j # i => to.message.domains[j] = at.message.domains[j]
                   /\ \/ /\ \E k \in Keys \ {"sender"} :
                               /\ concurrent[k] >= max_concurrent(k)
                               /\ to.on_hold = Append(at.on_hold, k)
                         /\ to.message.domains[i] = at.message.domains[i]
                      \/ /\ to.on_hold = at.on_hold
                         /\ to.message.domains[i].retry.due > now
             /\ InTask(at.pc) /\ InTask(to.pc) /\ to.message.id = at.message.id =>
                   /\ to.domain_idx \in {i, i + 1}
                   /\ to.pc \in {"lookup", "host", "ip", "connect", "session", "deliver"}
                         => to.domain_idx = i
             /\ at.pc # "notify" /\ to.pc = "notify" =>
                   at.pc \in {"domain"} /\ i > Len(at.message.domains)]_vars

\* The first domain was stopped by a rate failure (still Scheduled, never
\* counted, due later) and the second domain of the message has a connection.
C21_Witness ==
    \E a \in Slots :
        /\ attempt[a].pc = "session"
        /\ attempt[a].domain_idx = 2
        /\ attempt[a].message.domains[1] = [NewDomain EXCEPT !.retry.due = now + 1]

(***************************************************************************)
(* The list of remote hosts on its own: lines 98-141.                       *)
(***************************************************************************)
MaxRecords == 3
MaxExchanges == 2
MaxMxBound == 3
\* The exchanges record i of an MX lookup can hold.
ExchangeNames ==
    <<<<"mx1a", "mx1b", "mx1c">>, <<"mx2a", "mx2b", "mx2c">>, <<"mx3a", "mx3b", "mx3c">>,
      <<"mx4a", "mx4b", "mx4c">>>>
\* MX lookups by increasing preference, each record with any number of
\* exchanges, none included.
BoundedMxLists ==
    UNION {{[i \in 1..n |-> [preference |-> 10 * i,
                              exchanges |-> SubSeq(ExchangeNames[i], 1, len[i])]] :
              len \in [1..n -> 0..MaxExchanges]} : n \in 0..MaxRecords}
HostListInputs ==
    UNION {[op : {"hosts"}, hop : NextHops, mx_list : {l}, max_mx : 0..MaxMxBound,
            shuffled : Shuffles(l), done : {FALSE}, mx_lookups : {0},
            remote_hosts : {<<>>}] : l \in BoundedMxLists}

InitHostList ==
    /\ IdleQueue
    /\ now = 0
    /\ overflow_checks = FALSE
    /\ pure \in HostListInputs

\* Lines 99-101: the next-hop rule matches the envelope.
HostsRelay ==
    /\ pure.op = "hosts"
    /\ ~pure.done
    /\ pure.hop.some
    /\ pure' = [pure EXCEPT !.done = TRUE, !.remote_hosts = <<Relay(pure.hop.relay)>>]
    /\ QueueUnchanged

\* Lines 102-140: the MX lookup (it succeeded) and the list built from it.
HostsMx ==
    /\ pure.op = "hosts"
    /\ ~pure.done
    /\ ~pure.hop.some
    /\ pure' = [pure EXCEPT !.done = TRUE,
                            !.mx_lookups = @ + 1,
                            !.remote_hosts = remote_hosts_of("domain", pure.mx_list,
                                                             pure.max_mx, pure.shuffled)]
    /\ QueueUnchanged

NextHostList == HostsRelay \/ HostsMx
SpecHostList == InitHostList /\ [][NextHostList]_vars

\* C22: the list of remote hosts built from a non-empty MX lookup has at
\* most max_mx entries.
C22_AtMostMaxMx ==
    pure.op = "hosts" /\ pure.done /\ ~pure.hop.some /\ pure.mx_list # <<>> =>
        Len(pure.remote_hosts) <= pure.max_mx

\* The MX record an exchange of the lookup belongs to.
C23_RecordOf(name) ==
    CHOOSE i \in DOMAIN pure.mx_list :
        \E j \in DOMAIN pure.mx_list[i].exchanges : pure.mx_list[i].exchanges[j] = name

\* C23: the hosts of a domain are tried in the order of remote_hosts, and in
\* that list every exchange of an earlier MX record stands before any
\* exchange of a later record: the hosts follow the order of the records, and
\* a host of a record is in the list only after all the exchanges of every
\* earlier record.
C23_MxPreferenceOrder ==
    pure.op = "hosts" /\ pure.done /\ ~pure.hop.some /\ pure.mx_list # <<>> =>
        LET h == pure.remote_hosts
        IN /\ \A p, q \in DOMAIN h :
                 p < q => C23_RecordOf(h[p].address) <= C23_RecordOf(h[q].address)
           /\ \A q \in DOMAIN h, i \in DOMAIN pure.mx_list :
                 i < C23_RecordOf(h[q].address) =>
                    \A j \in DOMAIN pure.mx_list[i].exchanges :
                        \E p \in 1..(q - 1) : h[p].address = pure.mx_list[i].exchanges[j]

\* C24: the transaction runs at most once per domain per attempt.  The step
\* that ends deliver sets the domain's status to Completed, TemporaryFailure
\* or PermanentFailure and goes to the next domain; the loop never goes back
\* to a domain, and deliver is entered only from the session of the current
\* domain.
C24_DeliverOncePerDomain ==
    [][\A a \in Slots :
          LET at == attempt[a]
              to == attempt'[a]
              i == at.domain_idx
          IN /\ at.pc = "deliver" /\ to # at =>
                   /\ to.pc = "domain"
                   /\ to.message.id = at.message.id
                   /\ to.domain_idx = i + 1
                   /\ to.message.domains[i].status.s
                         \in {"Completed", "TemporaryFailure", "PermanentFailure"}
             /\ InTask(at.pc) /\ InTask(to.pc) /\ to.message.id = at.message.id =>
                   to.domain_idx >= i
             /\ at.pc # "deliver" /\ to.pc = "deliver" =>
                   at.pc = "session" /\ to.domain_idx = i]_vars

\* The transaction of the first domain was accepted: the domain and its
\* recipient are Completed and the attempt is at the second domain.
C24_Witness ==
    \E a \in Slots :
        /\ attempt[a].pc = "domain"
        /\ attempt[a].domain_idx = 2
        /\ Len(attempt[a].message.domains) = 2
        /\ attempt[a].message.domains[1].status = Completed
        /\ attempt[a].message.recipients[1].status = Completed

(***************************************************************************)
(* How a remote host is contacted: lines 179-208 and RemoteHost.            *)
(***************************************************************************)
\* Every RelayHost the configuration can name, and the hosts of MX lookups.
RelayConfigs ==
    [address : {"relay"}, port : {25, 465, 587}, tls_implicit : BOOLEAN,
     tls_allow_invalid_certs : BOOLEAN]
MxNames == {"domain", "mx1", "mx2", "mx1a", "mx1b", "mx2a"}
ContactInputs ==
    [op : {"contact"},
     remote_host : {MX(n) : n \in MxNames} \cup {Relay(r) : r \in RelayConfigs},
     tls_strategy : TlsStrategies, done : {FALSE}, port : {0}, implicit_tls : {FALSE},
     connector : {"none"}]

InitContact ==
    /\ IdleQueue
    /\ now = 0
    /\ overflow_checks = FALSE
    /\ pure \in ContactInputs

\* SocketAddr::new(remote_ip, remote_host.port()), the connector and the
\* test of line 210.
Contact ==
    /\ pure.op = "contact"
    /\ ~pure.done
    /\ pure' = [pure EXCEPT !.done = TRUE,
                            !.port = port(pure.remote_host),
                            !.implicit_tls = implicit_tls(pure.remote_host),
                            !.connector = tls_connector(pure.tls_strategy,
                                                        pure.remote_host)]
    /\ QueueUnchanged

NextContact == Contact
SpecContact == InitContact /\ [][NextContact]_vars

\* C25: the connector that skips certificate verification is chosen only for
\* a Relay host whose tls_allow_invalid_certs is true; an MX host is
\* contacted on port 25, without implicit TLS, and the connector chosen for
\* it is pki_verify.
C25_ConnectorByHostPolicy ==
    pure.op = "contact" /\ pure.done =>
        /\ pure.connector = "dummy_verify" =>
              /\ pure.remote_host.kind = "Relay"
              /\ pure.remote_host.tls_allow_invalid_certs
        /\ pure.remote_host.kind = "MX" =>
              /\ pure.port = 25
              /\ ~pure.implicit_tls
              /\ pure.connector \in {"pki_verify", "todo"}
              /\ pure.tls_strategy # "dane" => pure.connector = "pki_verify"

\* An MX host was contacted with pki_verify, with a strategy other than DANE.
C25_Witness ==
    /\ pure.op = "contact"
    /\ pure.done
    /\ pure.remote_host.kind = "MX"
    /\ pure.tls_strategy = "require"
    /\ pure.connector = "pki_verify"

(***************************************************************************)
(* Core::resolve_host on its own: lines 385-445.                            *)
(***************************************************************************)
MaxIps == 3
MaxMultihomedBound == 3
\* What resolver.ip_lookup can return: any list of IPv4 and IPv6 addresses.
Addresses == {Ip(4, 1), Ip(4, 2), Ip(6, 1)}
BoundedIpLists == UNION {[1..n -> Addresses] : n \in 0..MaxIps}
ResolveInputs ==
    [op : {"resolve"},
     lookup : {[err |-> e, ips |-> <<>>] : e \in DnsErrorKinds}
              \cup {[err |-> "none", ips |-> l] : l \in BoundedIpLists},
     max_multihomed : 0..MaxMultihomedBound,
     source_ipv4 : {<<>>, <<Ip(4, 9)>>, <<Ip(4, 8), Ip(4, 9)>>},
     source_ipv6 : {<<>>, <<Ip(6, 9)>>},
     rnd : 1..2,
     done : {FALSE},
     result : {[ok |-> FALSE, status |-> Scheduled, source_ip |-> None,
                remote_ips |-> <<>>]}]

InitResolve ==
    /\ IdleQueue
    /\ now = 0
    /\ overflow_checks = FALSE
    /\ pure \in ResolveInputs

ResolveHost ==
    /\ pure.op = "resolve"
    /\ ~pure.done
    /\ pure' = [pure EXCEPT !.done = TRUE,
                            !.result = resolve_host(pure.lookup, pure.max_multihomed,
                                                    pure.source_ipv4, pure.source_ipv6,
                                                    pure.rnd)]
    /\ QueueUnchanged

NextResolve == ResolveHost
SpecResolve == InitResolve /\ [][NextResolve]_vars

\* C26: when the lookup succeeds, resolve_host returns exactly the first
\* min(n, max_multihomed) of the n addresses the resolver returned, in
\* resolver order, if that is at least one address, and
\* TemporaryFailure(DNSError) if it is none.
C26_ResolveHostTruncates ==
    pure.op = "resolve" /\ pure.done /\ pure.lookup.err = "none" =>
        LET ips == pure.lookup.ips
            k == IF Len(ips) < pure.max_multihomed THEN Len(ips) ELSE pure.max_multihomed
        IN IF k > 0
           THEN /\ pure.result.ok
                /\ Len(pure.result.remote_ips) = k
                /\ \A i \in 1..k : pure.result.remote_ips[i] = ips[i]
           ELSE /\ ~pure.result.ok
                /\ pure.result.status = [s |-> "TemporaryFailure", e |-> "DNSError"]

\* Three addresses were returned and cut to the first two.
C26_Witness ==
    /\ pure.op = "resolve"
    /\ pure.done
    /\ pure.lookup.ips = <<Ip(4, 2), Ip(6, 1), Ip(4, 1)>>
    /\ pure.max_multihomed = 2
    /\ pure.result.remote_ips = <<Ip(4, 2), Ip(6, 1)>>

\* C27: when the next-hop rule matches, the host list is the single Relay
\* host and no MX lookup is made; otherwise, when the MX lookup succeeds
\* with an empty list, the host list is the domain itself as the one MX.
C27_RelayOrImplicitMx ==
    pure.op = "hosts" /\ pure.done =>
        /\ pure.hop.some =>
              /\ pure.remote_hosts = <<Relay(pure.hop.relay)>>
              /\ pure.remote_hosts[1].kind = "Relay"
              /\ pure.mx_lookups = 0
        /\ ~pure.hop.some /\ pure.mx_list = <<>> =>
              /\ pure.mx_lookups = 1
              /\ Len(pure.remote_hosts) = 1
              /\ pure.remote_hosts[1].kind = "MX"
              /\ hostname(pure.remote_hosts[1]) = "domain"

\* The lookup of a domain without MX records was answered with the domain.
C27_Witness ==
    /\ pure.op = "hosts"
    /\ pure.done
    /\ ~pure.hop.some
    /\ pure.mx_list = <<>>
    /\ pure.remote_hosts = <<MX("domain")>>

\* C28: a due domain that is not stopped by a throttle failure leaves the
\* attempt with status Completed, PermanentFailure or TemporaryFailure.  The
\* loop goes on to the next domain from the head of the loop (a failed MX
\* lookup, or a throttle failure, which appends a limiter or moves the due
\* time later), from the loop over hosts when the hosts are exhausted, from
\* the host throttle and from the transaction.
C28_DueDomainGetsStatus ==
    [][\A a \in Slots :
          LET at == attempt[a]
              to == attempt'[a]
              i == at.domain_idx
          IN /\ InTask(at.pc)
             /\ to.message.id = at.message.id
             /\ to.domain_idx = i + 1
             /\ i \in DOMAIN at.message.domains
             /\ at.pc = "domain" => IsDue(at.message.domains[i], now)
             => \/ to.message.domains[i].status.s
                     \in {"Completed", "PermanentFailure", "TemporaryFailure"}
                \/ /\ at.pc \in {"domain", "ip"}
                   /\ to.message.domains[i].status = at.message.domains[i].status
                   /\ \/ Len(to.on_hold) = Len(at.on_hold) + 1
                      \/ to.message.domains[i].retry.due > now]_vars

\* C29: a connection opened with an explicit source address has a source
\* and a remote address of the same family.
C29_SameAddressFamily ==
    \A a \in Connected :
        attempt[a].source_ip # None =>
            attempt[a].source_ip[1].v = attempt[a].remote_ips[attempt[a].ip_idx].v

(***************************************************************************)
(* Session::handle_rcpt_to (listener/rcpt.rs): the session of an SMTP       *)
(* client that sends RCPT TO commands.  pure holds the session: its params, *)
(* data.mail_from, data.rcpt_to, data.rcpt_errors, the responses the last   *)
(* command wrote and whether the session is still open.                     *)
(***************************************************************************)
MaxRcptMax == 2
MaxRcptErrorsMax == 2
MaxCommands == 4

\* RcptTo.address as received, with its lower-case form and its domain.
SessionAddress(address, address_lcase, domain) ==
    [address |-> address, address_lcase |-> address_lcase, domain |-> domain]
RcptToCommands ==
    {SessionAddress("A@local", "a@local", "local"),
     SessionAddress("a@local", "a@local", "local"),
     SessionAddress("b@local", "b@local", "local"),
     SessionAddress("c@remote", "c@remote", "remote"),
     SessionAddress("nodomain", "nodomain", "")}
\* Option<bool> of a lookup: it has no answer, or says yes or no.
Exists == {"None", "true", "false"}

\* rcpt_to.contains(&rcpt): two addresses are the same recipient when their
\* lower-case forms are equal.
contains(rcpt_to, rcpt) ==
    \E i \in DOMAIN rcpt_to : rcpt_to[i].address_lcase = rcpt.address_lcase

\* rcpt_error that compares with <= : the session is closed one error late.
rcpt_error_late(session, response) ==
    LET errors == session.rcpt_errors + 1
    IN IF errors <= session.rcpt_errors_max
       THEN [session EXCEPT !.rcpt_errors = errors, !.replies = <<response>>]
       ELSE [session EXCEPT !.rcpt_errors = errors,
                            !.replies = <<response, "421 4.3.0">>,
                            !.open = FALSE]

\* Lines 71-89: the error is counted and answered; the session is closed at
\* rcpt_errors_max.
rcpt_error(session, response) ==
    LET errors == session.rcpt_errors + 1
    IN IF errors < session.rcpt_errors_max
       THEN [session EXCEPT !.rcpt_errors = errors, !.replies = <<response>>]
       ELSE [session EXCEPT !.rcpt_errors = errors,
                            !.replies = <<response, "421 4.3.0">>,
                            !.open = FALSE]

write(session, response) == [session EXCEPT !.replies = <<response>>]

\* Lines 58-66 without the pop.
throttle_rcpt_no_pop(session, rcpt, allowed) ==
    LET pushed == [session EXCEPT !.rcpt_to = Append(@, rcpt)]
    IN IF ~allowed THEN write(pushed, "451 4.4.5") ELSE write(pushed, "250 2.1.5")

\* Lines 58-69: a new recipient is pushed, and popped again when the rate
\* limiter refuses it.
throttle_rcpt(session, rcpt, allowed) ==
    LET pushed == [session EXCEPT !.rcpt_to = Append(@, rcpt)]
    IN IF ~allowed
       THEN write([pushed EXCEPT !.rcpt_to = SubSeq(@, 1, Len(@) - 1)], "451 4.4.5")
       ELSE write(pushed, "250 2.1.5")

\* Lines 7-69.  domain_exists and address_exists are the answers of the two
\* lookups, allowed the answer of the rate limiter.
handle_rcpt_to(session, rcpt, domain_exists, address_exists, allowed) ==
    IF ~session.mail_from
    THEN write(session, "503 5.5.1")
    ELSE IF Len(session.rcpt_to) >= session.rcpt_max
    THEN write(session, "451 4.5.3")
    ELSE IF session.lookups /\ domain_exists = "None"
    THEN write(session, "451 4.4.3")
    ELSE IF session.lookups /\ domain_exists = "true" /\ address_exists = "None"
    THEN write(session, "451 4.4.3")
    ELSE IF session.lookups /\ domain_exists = "true" /\ address_exists = "false"
    THEN rcpt_error(session, "550 5.1.2")
    ELSE IF session.lookups /\ domain_exists = "false" /\ ~session.rcpt_relay
    THEN rcpt_error(session, "550 5.1.2")
    ELSE IF ~session.lookups /\ ~session.rcpt_relay
    THEN rcpt_error(session, "550 5.1.2")
    ELSE IF ~contains(session.rcpt_to, rcpt)
    THEN throttle_rcpt(session, rcpt, allowed)
    ELSE write(session, "250 2.1.5")

RcptSessions ==
    [op : {"rcpt"}, rcpt_max : 0..MaxRcptMax, rcpt_errors_max : 0..MaxRcptErrorsMax,
     rcpt_relay : BOOLEAN, lookups : BOOLEAN, mail_from : BOOLEAN, rcpt_to : {<<>>},
     rcpt_errors : {0}, replies : {<<>>}, open : {TRUE}, written : {0},
     commands : {0}]

InitRcpt ==
    /\ IdleQueue
    /\ now = 0
    /\ overflow_checks = FALSE
    /\ pure \in RcptSessions

\* One RCPT TO command of the client.  replies are the responses the handler
\* issues, written counts those that reached the client.  failed is the
\* write that fails (0: none): self.write(..).await? returns Err at once, so
\* nothing is issued after it and the session ends.
HandleRcptTo ==
    /\ pure.op = "rcpt"
    /\ pure.open
    /\ pure.commands < MaxCommands
    /\ \E rcpt \in RcptToCommands, domain_exists \in Exists, address_exists \in Exists,
          allowed \in BOOLEAN, failed \in 0..2 :
          LET after == handle_rcpt_to(pure, rcpt, domain_exists, address_exists, allowed)
          IN pure' = IF failed = 0 \/ failed > Len(after.replies)
                     THEN [after EXCEPT !.commands = @ + 1,
                                        !.written = Len(after.replies)]
                     ELSE [after EXCEPT !.commands = @ + 1,
                                        !.replies = SubSeq(after.replies, 1, failed),
                                        !.written = failed - 1,
                                        !.open = FALSE]
    /\ QueueUnchanged

NextRcpt == HandleRcptTo
SpecRcpt == InitRcpt /\ [][NextRcpt]_vars

\* C30: after every RCPT TO command the accepted recipients are at most
\* rcpt_max; a command changes rcpt_to only by adding one recipient at its
\* end, and only when its answer is 250: a command answered otherwise leaves
\* rcpt_to as it was.
C30_RcptToWithinMax ==
    [][pure.op = "rcpt" /\ pure'.commands = pure.commands + 1 =>
          /\ Len(pure'.rcpt_to) <= pure.rcpt_max
          /\ pure'.replies # <<"250 2.1.5">> => pure'.rcpt_to = pure.rcpt_to
          /\ pure'.rcpt_to # pure.rcpt_to =>
                \E rcpt \in RcptToCommands : pure'.rcpt_to = Append(pure.rcpt_to, rcpt)]_vars

\* A recipient was accepted, and a later one was refused by the rate limiter
\* and is not in rcpt_to.
C30_Witness ==
    /\ pure.op = "rcpt"
    /\ pure.replies = <<"451 4.4.5">>
    /\ Len(pure.rcpt_to) = 1
    /\ pure.rcpt_max = 2

\* A step that is one RCPT TO command; the command was answered with 550
\* when the 550 reached the client, refused when the handler issued it.
C31_Command == pure.op = "rcpt" /\ pure'.commands = pure.commands + 1
C31_Refused == Head(pure'.replies) = "550 5.1.2"
C31_Answered550 == C31_Refused /\ pure'.written >= 1
C31_Written421 == pure'.replies = <<"550 5.1.2", "421 4.3.0">> /\ pure'.written = 2

\* C31 as stated: rcpt_errors grows by one with each RCPT TO answered with
\* 550 and with no other reply; the session is ended, with 421 written, by
\* exactly the 550 that brings rcpt_errors to rcpt_errors_max or above, and
\* after every other command it is open with rcpt_errors < rcpt_errors_max.
C31_ErrorsCountedOnce ==
    [][C31_Command =>
          /\ C31_Answered550 => pure'.rcpt_errors = pure.rcpt_errors + 1
          /\ ~C31_Answered550 => pure'.rcpt_errors = pure.rcpt_errors
          /\ ~pure'.open <=> C31_Answered550 /\ pure'.rcpt_errors >= pure.rcpt_errors_max
          /\ ~pure'.open <=> C31_Written421
          /\ pure'.open => pure'.rcpt_errors < pure.rcpt_errors_max]_vars

\* C31 amended: rcpt_errors grows by one with each RCPT TO the handler
\* refuses with 550, whether or not the 550 can be written, and with no
\* other command.  The session is ended by a response that cannot be
\* written, and by the 550 that brings rcpt_errors to rcpt_errors_max or
\* above: after that 550 is written the 421 is issued, and nothing else
\* issues a 421.  After every other command the session is open, with
\* rcpt_errors < rcpt_errors_max, or with rcpt_errors = 0 when
\* rcpt_errors_max is 0.
C31_ErrorsCountedOnceAmended ==
    [][C31_Command =>
          LET limit == C31_Refused /\ pure'.rcpt_errors >= pure.rcpt_errors_max
          IN /\ C31_Refused => pure'.rcpt_errors = pure.rcpt_errors + 1
             /\ ~C31_Refused => pure'.rcpt_errors = pure.rcpt_errors
             /\ ~pure'.open <=> limit \/ pure'.written < Len(pure'.replies)
             /\ limit /\ pure'.written >= 1 =>
                   pure'.replies = <<"550 5.1.2", "421 4.3.0">>
             /\ ~(limit /\ pure'.written >= 1) => Len(pure'.replies) = 1
             /\ pure'.open =>
                   \/ pure'.rcpt_errors < pure.rcpt_errors_max
                   \/ pure.rcpt_errors_max = 0 /\ pure'.rcpt_errors = 0]_vars

\* The second 550 of a session that allows two errors has ended it with 421.
C31_Witness ==
    /\ pure.op = "rcpt"
    /\ pure.rcpt_errors_max = 2
    /\ pure.rcpt_errors = 2
    /\ pure.replies = <<"550 5.1.2", "421 4.3.0">>
    /\ pure.written = 2
    /\ ~pure.open

====
